---- MODULE Spec2Model ----
(***************************************************************************)
(* Markdown-to-Confluence publisher (md_to_conf / md2conf).                *)
(*                                                                         *)
(* Text is modelled character by character: a Python str is a TLA+ string, *)
(* a character is a string of length one, and every pattern of the source  *)
(* (str.replace, re.findall, re.search, re.sub) is evaluated by the        *)
(* operators below with Python's matching order (leftmost match, lazy and  *)
(* greedy quantifiers, non-overlapping scans).                             *)
(***************************************************************************)
EXTENDS Integers, Sequences, FiniteSets, TLC

VARIABLES
    cfg,        \* the run's configuration: the module-level globals parsed from argv
    arg,        \* the argument of the function under check
    ret,        \* what it returned: [raised, value]
    stage,      \* "call" before the function ran, "done" after
    headers,    \* add_local_refs: the headings found in the page
    hidx,       \* add_local_refs: how many headings the loop has processed
    hstate,     \* add_local_refs: [map |-> headers_map, count |-> headers_count]
    pc,         \* main: the statement it is at
    main_html,  \* main: its local html, None or a str
    log,        \* the steps of the conversion that have run, in order
    loc,        \* main and the function it is in: the other locals
    space_id,   \* ConfluenceApiClient.space_id
    reqs,       \* the requests sent to Confluence, in order
    status,     \* "running", or how the process ended
    srv         \* Confluence as the client's calls find and leave it

fnVars == <<arg, ret, stage>>
hdrVars == <<headers, hidx, hstate>>
drvVars == <<pc, main_html, log, loc, space_id, reqs, status, srv>>
vars == <<cfg, arg, ret, stage, headers, hidx, hstate,
          pc, main_html, log, loc, space_id, reqs, status, srv>>

-----------------------------------------------------------------------------
(* Python str primitives                                                   *)

Min(S) == CHOOSE x \in S : \A y \in S : x <= y
Max(S) == 0 - Min({0 - x : x \in S})

\* s[i] (1-based) as a string of length one
At(s, i) == SubSeq(s, i, i)

\* s[i:] and s[i:j] in 1-based, inclusive positions
From(s, i) == SubSeq(s, i, Len(s))

\* s.startswith(p, i-1)
StartsAt(s, i, p) == /\ i >= 1
                     /\ i + Len(p) - 1 <= Len(s)
                     /\ SubSeq(s, i, i + Len(p) - 1) = p

\* the least element of a set of positions, 0 for the empty set
FirstOf(hits) == IF hits = {} THEN 0 ELSE Min(hits)

\* s.find(p, from-1) + 1: the first position >= from where p occurs, 0 if none
Find(s, p, from) == FirstOf({i \in from..(Len(s) - Len(p) + 1) : StartsAt(s, i, p)})

\* p in s
Contains(s, p) == Find(s, p, 1) # 0

\* s.count(p): non-overlapping occurrences, scanning from the left; i is the
\* position of the next occurrence
RECURSIVE CountFrom(_, _, _)
CountAt(s, p, i) == IF i = 0 THEN 0 ELSE 1 + CountFrom(s, p, i + Len(p))
CountFrom(s, p, from) == CountAt(s, p, Find(s, p, from))

Count(s, p) == CountFrom(s, p, 1)

\* s.replace(p, r): every non-overlapping occurrence, scanning from the left;
\* i is the position of the first occurrence
RECURSIVE Replace(_, _, _)
ReplaceAt(s, p, r, i) ==
    IF i = 0 THEN s
    ELSE SubSeq(s, 1, i - 1) \o r \o Replace(From(s, i + Len(p)), p, r)
Replace(s, p, r) == ReplaceAt(s, p, r, Find(s, p, 1))

\* s.replace(p, r, 1)
ReplaceFirstAt(s, p, r, i) ==
    IF i = 0 THEN s
    ELSE SubSeq(s, 1, i - 1) \o r \o From(s, i + Len(p))
ReplaceFirst(s, p, r) == ReplaceFirstAt(s, p, r, Find(s, p, 1))

UpperLetters == "ABCDEFGHIJKLMNOPQRSTUVWXYZ"
LowerLetters == "abcdefghijklmnopqrstuvwxyz"
Digits == "0123456789"

\* the characters of a string, and the tables of str.lower and str.upper
Chars(s) == {At(s, i) : i \in 1..Len(s)}
ToLower == [c \in Chars(UpperLetters) |-> At(LowerLetters, Find(UpperLetters, c, 1))]
ToUpper == [c \in Chars(LowerLetters) |-> At(UpperLetters, Find(LowerLetters, c, 1))]

IsUpper(c) == c \in DOMAIN ToLower
IsLower(c) == c \in DOMAIN ToUpper
IsDigit(c) == c \in Chars(Digits)
\* the ASCII part of Python's str.isspace / the regex class \s
IsSpace(c) == c \in {" ", "\n", "\t", "\r", "\f"}

LowerChar(c) == IF IsUpper(c) THEN ToLower[c] ELSE c
UpperChar(c) == IF IsLower(c) THEN ToUpper[c] ELSE c

\* s.lower()
RECURSIVE Lower(_)
Lower(s) ==
    IF Len(s) = 0 THEN ""
    ELSE IF Len(s) = 1 THEN LowerChar(s)
    ELSE LET h == Len(s) \div 2
         IN  Lower(SubSeq(s, 1, h)) \o Lower(From(s, h + 1))

\* s.strip(): solid holds the positions of the characters that stay
Between(s, solid) == IF solid = {} THEN "" ELSE SubSeq(s, Min(solid), Max(solid))
Strip(s) == Between(s, {i \in 1..Len(s) : ~IsSpace(At(s, i))})

\* s.lstrip(c) for a single character c
LStripChar(s, c) == Between(s, {i \in 1..Len(s) : \E j \in 1..i : At(s, j) # c})

\* "".join(strs)
RECURSIVE Concat(_)
Concat(strs) == IF strs = <<>> THEN "" ELSE Head(strs) \o Concat(Tail(strs))

\* [piece(x) for x in items]
Each(items, piece(_)) == [k \in 1..Len(items) |-> piece(items[k])]

-----------------------------------------------------------------------------
(* Python re: a pattern is a tuple of elements                             *)
(*   Lit(v)            the literal text v                                  *)
(*   OneOf(vs)         an alternation of literal texts, (a|b)              *)
(*   One(cls)          one character of a class                            *)
(*   Rep(cls, mn, g)   cls repeated mn or more times, greedy when g        *)
(*   Mark              a group boundary (matches the empty string)         *)
(* classes: "any" is . with re.DOTALL, "dot" is . without it, "space" \s,  *)
(* "digit" \d, "notgt" [^>], "lower" [a-z], "blank" the space character.   *)

Lit(v) == [t |-> "lit", v |-> v, vs |-> <<>>, mn |-> 0, g |-> FALSE]
OneOf(vs) == [t |-> "alt", v |-> "", vs |-> vs, mn |-> 0, g |-> FALSE]
One(cls) == [t |-> "one", v |-> cls, vs |-> <<>>, mn |-> 1, g |-> FALSE]
Rep(cls, mn, g) == [t |-> "rep", v |-> cls, vs |-> <<>>, mn |-> mn, g |-> g]
Mark == [t |-> "mark", v |-> "", vs |-> <<>>, mn |-> 0, g |-> FALSE]

Lazy == Rep("dot", 0, FALSE)        \* .*?
LazyAll == Rep("any", 0, FALSE)     \* .*? under re.DOTALL
Lazy1 == Rep("dot", 1, FALSE)       \* .+?
Greedy == Rep("dot", 0, TRUE)       \* .*
GreedyAll == Rep("any", 0, TRUE)    \* .* under re.DOTALL
Space == One("space")               \* \s
Digit == One("digit")               \* \d

InClass(c, cls) ==
    CASE cls = "any" -> TRUE
      [] cls = "dot" -> c # "\n"
      [] cls = "space" -> IsSpace(c)
      [] cls = "digit" -> IsDigit(c)
      [] cls = "notgt" -> c # ">"
      [] cls = "lower" -> IsLower(c)
      [] cls = "blank" -> c = " "

\* the number of characters of the class that follow position i - 1
Run(s, i, cls) ==
    LET stops == {j \in i..Len(s) : ~InClass(At(s, j), cls)}
    IN  IF stops = {} THEN Len(s) + 1 - i ELSE Min(stops) - i

\* literal comparison, case-folded under re.IGNORECASE (ic)
LitAt(s, i, v, ic) ==
    IF ic THEN /\ i + Len(v) - 1 <= Len(s)
               /\ Lower(SubSeq(s, i, i + Len(v) - 1)) = Lower(v)
    ELSE StartsAt(s, i, v)

\* Match(s, i, pat, k, ic): elements k.. of pat matched at position i of s, in
\* the order Python's backtracking tries them. <<>> when there is no match,
\* else <<e, m1, m2, ...>>: the match ends before position e and the marks of
\* the pattern were passed at positions m1, m2, ...
RECURSIVE Match(_, _, _, _, _)

\* a repetition of lo..hi characters: rs maps each length of a stretch of
\* sixteen candidates to the match of the rest of the pattern behind it; a
\* lazy repetition takes the shortest length that matches, a greedy one the
\* longest, and the search moves on to the next stretch when none does
RECURSIVE RepMatch(_, _, _, _, _, _, _, _)
RepPick(s, i, pat, k, ic, lo, hi, greedy, rs, hits) ==
    IF hits # {} THEN rs[IF greedy THEN Max(hits) ELSE Min(hits)]
    ELSE IF greedy THEN RepMatch(s, i, pat, k, ic, lo, Min(DOMAIN rs) - 1, greedy)
    ELSE RepMatch(s, i, pat, k, ic, Max(DOMAIN rs) + 1, hi, greedy)
RepRest(s, i, pat, k, ic, lo, hi, greedy, rs) ==
    RepPick(s, i, pat, k, ic, lo, hi, greedy, rs, {n \in DOMAIN rs : rs[n] # <<>>})
RepMatch(s, i, pat, k, ic, lo, hi, greedy) ==
    IF lo > hi THEN <<>>
    ELSE RepRest(s, i, pat, k, ic, lo, hi, greedy,
                 [n \in (IF greedy THEN Max({lo, hi - 15})..hi
                         ELSE lo..Min({hi, lo + 15}))
                    |-> Match(s, i + n, pat, k + 1, ic)])

\* a mark records the position it is passed at in the match r of the rest
MarkAt(i, r) == IF r = <<>> THEN <<>> ELSE <<r[1], i>> \o Tail(r)

Match(s, i, pat, k, ic) ==
    IF k > Len(pat) THEN <<i>>
    ELSE
      LET el == pat[k] IN
      CASE el.t = "lit" ->
             IF LitAt(s, i, el.v, ic) THEN Match(s, i + Len(el.v), pat, k + 1, ic)
             ELSE <<>>
        [] el.t = "alt" ->
             LET ok == {a \in 1..Len(el.vs) :
                          /\ LitAt(s, i, el.vs[a], ic)
                          /\ Match(s, i + Len(el.vs[a]), pat, k + 1, ic) # <<>>}
             IN  IF ok = {} THEN <<>>
                 ELSE Match(s, i + Len(el.vs[Min(ok)]), pat, k + 1, ic)
        [] el.t = "one" ->
             IF i <= Len(s) /\ InClass(At(s, i), el.v)
             THEN Match(s, i + 1, pat, k + 1, ic)
             ELSE <<>>
        [] el.t = "rep" -> RepMatch(s, i, pat, k, ic, el.mn, Run(s, i, el.v), el.g)
        [] el.t = "mark" -> MarkAt(i, Match(s, i, pat, k + 1, ic))

\* the first literal of a pattern that starts with one ("" otherwise): a
\* match can only start where it occurs
Lead(pat) == IF Len(pat) > 0 /\ pat[1].t = "lit" THEN pat[1].v ELSE ""

\* the match of pat at position i; ms maps every start position to its match
MatchAt(s, i, pat, ic) ==
    IF LitAt(s, i, Lead(pat), ic) THEN Match(s, i, pat, 1, ic) ELSE <<>>
FirstMatch(ms, hits) == IF hits = {} THEN <<>> ELSE <<Min(hits)>> \o ms[Min(hits)]
LeftmostMatch(ms) == FirstMatch(ms, {i \in DOMAIN ms : ms[i] # <<>>})

\* re.search(pat, s) from position from: <<>> or <<start, e, m1, ...>>
Search(s, pat, from, ic) ==
    LeftmostMatch([i \in from..(Len(s) + 1) |-> MatchAt(s, i, pat, ic)])

\* re.match / a pattern anchored with ^ (no re.MULTILINE)
MatchStart(s, pat, ic) == Match(s, 1, pat, 1, ic)

\* re.findall(pat, s): the matches <<start, e, m1, ...>> from the left, each
\* scan resuming where the previous match m ended (no pattern here matches "")
RECURSIVE FindAll(_, _, _, _)
FindMore(s, pat, ic, m) ==
    IF m = <<>> THEN <<>> ELSE <<m>> \o FindAll(s, pat, m[2], ic)
FindAll(s, pat, from, ic) == FindMore(s, pat, ic, Search(s, pat, from, ic))

\* re.sub(pat, r, s, count): count = 0 replaces every match; m is the next
\* match and left the number of replacements still allowed
RECURSIVE SubFrom(_, _, _, _, _, _)
SubMatch(s, pat, r, from, left, ic, m) ==
    IF m = <<>> THEN From(s, from)
    ELSE SubSeq(s, from, m[1] - 1) \o r \o
         (IF left = 1 THEN From(s, m[2])
          ELSE SubFrom(s, pat, r, m[2], IF left = 0 THEN 0 ELSE left - 1, ic))
SubFrom(s, pat, r, from, left, ic) ==
    SubMatch(s, pat, r, from, left, ic, Search(s, pat, from, ic))

Sub(pat, r, s, count, ic) == SubFrom(s, pat, r, 1, count, ic)

\* the text between two marks of a match
Group(s, m, a, b) == SubSeq(s, m[a], m[b] - 1)

\* the text between two marks of each match of a list
Groups(s, ms, a, b) == [k \in 1..Len(ms) |-> Group(s, ms[k], a, b)]

\* the matched text of each match of a list
Fragments(s, ms) == [k \in 1..Len(ms) |-> SubSeq(s, ms[k][1], ms[k][2] - 1)]

-----------------------------------------------------------------------------
(* Code-block conversion                                                   *)

CodeBlockPat ==
    <<Lit("<pre><code"), LazyAll, Lit(">"), Mark, LazyAll, Mark, Lit("</code></pre>")>>
CodeLangPat == <<Lit("code class=\""), Mark, Greedy, Mark, Lit("\"")>>

MacroPlainOpen == "<ac:plain-text-body><![CDATA["
MacroPlainClose == "]]></ac:plain-text-body>"
CodeMacroOpen == "<ac:structured-macro ac:name=\"code\">"
CodeMacroHead ==
    CodeMacroOpen
    \o "<ac:parameter ac:name=\"theme\">Midnight</ac:parameter>"
    \o "<ac:parameter ac:name=\"linenumbers\">true</ac:parameter>"

\* the four replacements applied to the assembled macro, in the source's order
UnescapeMacro(conf_ml) ==
    Replace(Replace(Replace(Replace(conf_ml, "&lt;", "<"), "&gt;", ">"),
                    "&quot;", "\""), "&amp;", "&")

\* md2conf.py splits "]]" across two CDATA sections; the package does not
EscapeCData(content) == Replace(content, "]]", "]]]]><![CDATA[")
NoEscapeCData(content) == content

\* lang.group(1) if lang else "none"
CodeLang(tag, lang) == IF lang # <<>> THEN Group(tag, lang, 3, 4) ELSE "none"

CodeContent(body, escape) ==
    IF escape THEN EscapeCData(body) ELSE NoEscapeCData(body)

\* the macro built for one matched fragment (the body of the for loop)
CodeMacro(tag, escape) ==
    UnescapeMacro(CodeMacroHead
                  \o "<ac:parameter ac:name=\"language\">"
                  \o CodeLang(tag, Search(tag, CodeLangPat, 1, FALSE))
                  \o "</ac:parameter>"
                  \o MacroPlainOpen
                  \o CodeContent(Group(tag, Search(tag, CodeBlockPat, 1, FALSE), 3, 4),
                                 escape)
                  \o MacroPlainClose
                  \o "</ac:structured-macro>")

\* code_blocks = re.findall(...): the matched fragments of the input
CodeBlocks(html) == Fragments(html, FindAll(html, CodeBlockPat, 1, FALSE))

\* for tag in code_blocks: html = html.replace(tag, conf_ml)
RECURSIVE ReplaceBlocks(_, _, _, _)
ReplaceBlocks(html, tags, k, escape) ==
    IF k > Len(tags) THEN html
    ELSE ReplaceBlocks(Replace(html, tags[k], CodeMacro(tags[k], escape)),
                       tags, k + 1, escape)

\* MarkdownConverter.convert_code_block and the package's convert_code_block
convert_code_block(html) == ReplaceBlocks(html, CodeBlocks(html), 1, FALSE)

\* md2conf.py's convert_code_block
md2conf_convert_code_block(html) == ReplaceBlocks(html, CodeBlocks(html), 1, TRUE)

-----------------------------------------------------------------------------
(* Title strip, [TOC] marker, hidden comments, iframes, emojis, contents   *)

\* "\n".join(html.split("\n")[1:]); i is the position of the first newline
DropLineAt(html, i) == IF i = 0 THEN "" ELSE From(html, i + 1)
DropFirstLine(html) == DropLineAt(html, Find(html, "\n", 1))

TocMacro == "<p><ac:structured-macro ac:name=\"toc\" ac:schema-version=\"1\"/></p>"

\* re.sub(r"<p>\[TOC\]</p>", ..., html, 1)
create_table_of_content(html) == ReplaceFirst(html, "<p>[TOC]</p>", TocMacro)

convert_comment_block(html) ==
    Replace(Replace(html, "<!--", "<ac:placeholder>"), "-->", "</ac:placeholder>")

IframePat == <<Lit("<iframe"), Mark, LazyAll, Mark, Lit("</iframe>")>>
IframeOpen == "<p><ac:structured-macro ac:name = \"html\" ><ac:plain-text-body > <![CDATA["
IframeClose == "]]> </ac:plain-text-body></ac:structured-macro ></p>"

RECURSIVE WrapIframes(_, _, _, _)
WrapIframes(html, orig, ms, k) ==
    IF k > Len(ms) THEN html
    ELSE LET src == "<iframe" \o Group(orig, ms[k], 3, 4) \o "</iframe>"
         IN  WrapIframes(Replace(html, src, IframeOpen \o src \o IframeClose),
                         orig, ms, k + 1)

\* md2conf.py only
convert_iframe_macros(html) == WrapIframes(html, html, FindAll(html, IframePat, 1, FALSE), 1)

\* TLA+ strings are ASCII: "@" stands for a character of U+1F600-U+1F64F and
\* "$" for one of U+1F680-U+1F6FF; no document of the model uses them otherwise
EmojiChars == <<"@", "$">>

RECURSIVE RemoveChars(_, _, _)
RemoveChars(s, cs, k) ==
    IF k > Len(cs) THEN s ELSE RemoveChars(Replace(s, cs[k], ""), cs, k + 1)

remove_emojies(html) == RemoveChars(html, EmojiChars, 1)

ContentsMarkup ==
    "<ac:structured-macro ac:name=\"toc\">\n<ac:parameter ac:name=\"printable\">"
    \o "true</ac:parameter>\n<ac:parameter ac:name=\"style\">disc</ac:parameter>"
    \o "<ac:parameter ac:name=\"maxLevel\">5</ac:parameter>\n"
    \o "<ac:parameter ac:name=\"minLevel\">1</ac:parameter>"
    \o "<ac:parameter ac:name=\"class\">rm-contents</ac:parameter>\n"
    \o "<ac:parameter ac:name=\"exclude\"></ac:parameter>\n"
    \o "<ac:parameter ac:name=\"type\">list</ac:parameter>"
    \o "<ac:parameter ac:name=\"outline\">false</ac:parameter>\n"
    \o "<ac:parameter ac:name=\"include\"></ac:parameter>\n"
    \o "</ac:structured-macro>"

add_contents(html) == ContentsMarkup \o "\n" \o html

-----------------------------------------------------------------------------
(* Info, note and warning macros                                           *)

info_tag == "<p><ac:structured-macro ac:name=\"info\"><ac:rich-text-body><p>"
note_tag == Replace(info_tag, "info", "note")
warning_tag == Replace(info_tag, "info", "warning")
close_tag == "</p></ac:rich-text-body></ac:structured-macro></p>"

\* the value of re.IGNORECASE, which strip_type passes to re.sub in the
\* position of its count parameter
IGNORECASE == 2

\* string.upper() of the characters at the given positions (1-based)
RECURSIVE upper_chars(_, _)
upper_chars(string, indices) ==
    LET hit == {i \in indices : 1 <= i /\ i <= Len(string)}
    IN  IF hit = {} THEN string
        ELSE LET i == Max(hit)
             IN  upper_chars(SubSeq(string, 1, i - 1), hit \ {i})
                 \o UpperChar(At(string, i)) \o From(string, i + 1)

\* the eight patterns of strip_type, in the source's order
StripPats(tagtype) ==
    << <<Lit(tagtype \o ":"), Space>>,
       <<Lit(tagtype), Space, Lit(":"), Space>>,
       <<Lit("<"), Lazy, Lit(">" \o tagtype \o ":"), Space, Lit("<"), Lazy, Lit(">")>>,
       <<Lit("<"), Lazy, Lit(">" \o tagtype), Space, Lit(":"), Space, Lit("<"), Lazy, Lit(">")>>,
       <<Lit("<"), OneOf(<<"em", "strong">>), Lit(">" \o tagtype \o ":<"), Lazy, Lit(">"), Space>>,
       <<Lit("<"), OneOf(<<"em", "strong">>), Lit(">" \o tagtype), Space, Lit(":<"), Lazy, Lit(">"), Space>>,
       <<Lit("<"), OneOf(<<"em", "strong">>), Lit(">" \o tagtype \o "<"), Lazy, Lit(">:"), Space>>,
       <<Lit("<"), OneOf(<<"em", "strong">>), Lit(">" \o tagtype), Space, Lit("<"), Lazy, Lit(">:"), Space>> >>

\* re.sub(pattern, "", tag, re.IGNORECASE): the flag lands in count, so the
\* match is case-sensitive and at most IGNORECASE matches are removed
StripSub(pat, tag) == Sub(pat, "", tag, IGNORECASE, FALSE)

RECURSIVE StripRest(_, _, _)
StripRest(tag, pats, k) ==
    IF k > Len(pats) THEN tag ELSE StripRest(StripSub(pats[k], tag), pats, k + 1)

\* tag after the eight re.sub calls
Stripped(tag, tagtype) ==
    LET pats == StripPats(tagtype)
        t1 == StripSub(pats[1], Strip(tag))
        t2 == StripSub(pats[2], Strip(t1))
    IN  StripRest(t2, pats, 3)

FirstTagPat == <<Lit("<"), Lazy, Lit(">")>>

\* re.search("<.*?>", tag) is None: string_start.end() raises AttributeError
strip_type_raises(tag, tagtype) ==
    Search(Stripped(tag, tagtype), FirstTagPat, 1, FALSE) = <<>>

\* upper_chars(tag, [string_start.end()])
UpperAfterTag(tag) == upper_chars(tag, {Search(tag, FirstTagPat, 1, FALSE)[2]})

strip_type(tag, tagtype) == UpperAfterTag(Stripped(tag, tagtype))

BlockquotePat == <<Lit("<blockquote>"), Mark, LazyAll, Mark, Lit("</blockquote>")>>
NotePat == <<Lit("<"), Greedy, Lit(">Note")>>
WarningPat == <<Lit("<"), Greedy, Lit(">Warning")>>

\* re.search("^<.*>Note", quote.strip(), re.IGNORECASE)
IsNote(quote) == MatchStart(Strip(quote), NotePat, TRUE) # <<>>
IsWarning(quote) == MatchStart(Strip(quote), WarningPat, TRUE) # <<>>

\* quotes = re.findall("<blockquote>(.*?)</blockquote>", html, re.DOTALL)
Quotes(html) == Groups(html, FindAll(html, BlockquotePat, 1, FALSE), 3, 4)

WrapParagraphs(text, open) ==
    Strip(Replace(Replace(text, "<p>", open), "</p>", close_tag))

\* the macro one blockquote is replaced with (the body of the for loop)
QuoteMacro(quote) ==
    IF IsNote(quote) THEN WrapParagraphs(strip_type(quote, "Note"), note_tag)
    ELSE IF IsWarning(quote) THEN WrapParagraphs(strip_type(quote, "Warning"), warning_tag)
    ELSE WrapParagraphs(quote, info_tag)

QuoteRaises(quote) ==
    IF IsNote(quote) THEN strip_type_raises(quote, "Note")
    ELSE IF IsWarning(quote) THEN strip_type_raises(quote, "Warning")
    ELSE FALSE

RECURSIVE ReplaceQuotes(_, _, _)
ReplaceQuotes(html, quotes, k) ==
    IF k > Len(quotes) THEN html
    ELSE ReplaceQuotes(Replace(html, "<blockquote>" \o quotes[k] \o "</blockquote>",
                               QuoteMacro(quotes[k])),
                       quotes, k + 1)

\* the custom ~? ~! ~% markers
CustomMarkers(html) ==
    LET h1 == Replace(Replace(html, "<p>~?", info_tag), "?~</p>", close_tag)
        h2 == Replace(Replace(h1, "<p>~!", note_tag), "!~</p>", close_tag)
    IN  Replace(Replace(h2, "<p>~%", warning_tag), "%~</p>", close_tag)

DoctocPat == <<Lit("<!-- START doctoc"), GreedyAll, Lit("END doctoc -->")>>

\* the toc macro of convert_doctoc; ind and pind are the indentation of the
\* macro lines and of the parameter lines in the source's literal
TocTag(ind, pind) ==
    "<p>\n" \o ind \o "<ac:structured-macro ac:name=\"toc\">\n"
    \o pind \o "<ac:parameter ac:name=\"printable\">true</ac:parameter>\n"
    \o pind \o "<ac:parameter ac:name=\"style\">disc</ac:parameter>\n"
    \o pind \o "<ac:parameter ac:name=\"maxLevel\">7</ac:parameter>\n"
    \o pind \o "<ac:parameter ac:name=\"minLevel\">1</ac:parameter>\n"
    \o pind \o "<ac:parameter ac:name=\"type\">list</ac:parameter>\n"
    \o pind \o "<ac:parameter ac:name=\"outline\">clear</ac:parameter>\n"
    \o pind \o "<ac:parameter ac:name=\"include\">.*</ac:parameter>\n"
    \o ind \o "</ac:structured-macro>\n"
    \o ind \o "</p>"

toc_tag == TocTag("        ", "        ")        \* converter.py
script_toc_tag == TocTag("    ", "      ")       \* the package and md2conf.py

convert_doctoc(html, toc) == Sub(DoctocPat, toc, html, 0, FALSE)

\* the blockquote loop over the page h
QuotesReplaced(h) == ReplaceQuotes(h, Quotes(h), 1)

InfoMacros(html, toc) == convert_doctoc(QuotesReplaced(CustomMarkers(html)), toc)

\* a Note or Warning blockquote left without any tag makes strip_type raise
AnyQuoteRaises(qs) == \E k \in 1..Len(qs) : QuoteRaises(qs[k])
convert_info_macros_raises(html) == AnyQuoteRaises(Quotes(CustomMarkers(html)))

\* MarkdownConverter.convert_info_macros
convert_info_macros(html) == InfoMacros(html, toc_tag)

\* convert_info_macros of the three scripts: they differ in the toc literal
ConvertInfoMacros(variant, html) ==
    InfoMacros(html, IF variant = "converter" THEN toc_tag ELSE script_toc_tag)

-----------------------------------------------------------------------------
(* Footnote references                                                     *)

RefBarePat == <<Lit("\n"), Mark, Lit("[^"), Mark, Digit, Mark, Lit("]"), Greedy, Mark>>
RefParaPat == <<Lit("<p>"), Mark, Lit("[^"), Mark, Digit, Mark, Lit("]"), Greedy, Mark>>
HrefPat == <<Lit("href=\""), Mark, Lazy, Mark, Lit("\"")>>

\* the earlier of two matches; the first wins a tie
Earlier(a, b) ==
    IF a = <<>> THEN b
    ELSE IF b = <<>> THEN a
    ELSE IF b[1] < a[1] THEN b ELSE a

\* re.findall("\n(\[\^(\d)\].*)|<p>(\[\^(\d)\].*)", html): at each position
\* the first alternative is tried before the second; m is the next match
RECURSIVE Refs(_, _)
RefsMore(html, m) ==
    IF m = <<>> THEN <<>>
    ELSE <<[text |-> SubSeq(html, m[3], m[6] - 1), id |-> SubSeq(html, m[4], m[5] - 1)]>>
         \o Refs(html, m[2])
Refs(html, from) ==
    RefsMore(html, Earlier(Search(html, RefBarePat, from, FALSE),
                           Search(html, RefParaPat, from, FALSE)))

\* full_ref with its paragraph tags removed
FullRef(ref) == Replace(Replace(ref.text, "</p>", ""), "<p>", "")

Superscript(href, ref_id) ==
    "<a id=\"test\" href=\"" \o href \o "\"><sup>" \o ref_id \o "</sup></a>"

\* ReplaceRef with html.replace(..., 1): only the first citation is converted
ReplaceRefOnce(html, full_ref, ref_id) ==
    ReplaceFirst(Replace(html, full_ref, ""),
                 "[^" \o ref_id \o "]",
                 Superscript(Group(full_ref, Search(full_ref, HrefPat, 1, FALSE), 3, 4), ref_id))

\* one iteration of "for ref in refs" over the page
ReplaceRef(html, full_ref, ref_id) ==
    Replace(Replace(html, full_ref, ""),
            "[^" \o ref_id \o "]",
            Superscript(Group(full_ref, Search(full_ref, HrefPat, 1, FALSE), 3, 4), ref_id))

RECURSIVE ReplaceRefs(_, _, _)
ReplaceRefs(html, refs, k) ==
    IF k > Len(refs) THEN html
    ELSE ReplaceRefs(ReplaceRef(html, FullRef(refs[k]), refs[k].id), refs, k + 1)

\* re.search('href="(.*?)"', full_ref) is None: .group raises AttributeError
AnyRefRaises(refs) ==
    \E k \in 1..Len(refs) : Search(FullRef(refs[k]), HrefPat, 1, FALSE) = <<>>
process_refs_raises(html) == AnyRefRaises(Refs(html, 1))

process_refs(html) == ReplaceRefs(html, Refs(html, 1), 1)

-----------------------------------------------------------------------------
(* Slugs and the Header Map of add_local_refs                              *)

\* "%d" % n
RECURSIVE IntToStr(_)
IntToStr(n) ==
    IF n < 0 THEN "-" \o IntToStr(0 - n)
    ELSE IF n < 10 THEN At(Digits, n + 1)
    ELSE IntToStr(n \div 10) \o At(Digits, (n % 10) + 1)

\* re.sub(r"[^a-zA-Z0-9-]", "", s)
RECURSIVE KeepSlugChars(_)
KeepSlugChars(s) ==
    IF Len(s) = 0 THEN ""
    ELSE IF Len(s) = 1
         THEN (IF IsLower(s) \/ IsUpper(s) \/ IsDigit(s) \/ s = "-" THEN s ELSE "")
    ELSE LET h == Len(s) \div 2
         IN  KeepSlugChars(SubSeq(s, 1, h)) \o KeepSlugChars(From(s, h + 1))

HtmlTagPat == <<Lit("<"), Rep("notgt", 1, TRUE), Lit(">")>>
HtmlEntityPat == <<Lit("&"), Rep("lower", 1, TRUE), Lit(";")>>

\* slug that never lowers its argument
SlugAsIs(string, lowercase) ==
    KeepSlugChars(
      Replace(Sub(HtmlEntityPat, "", Sub(HtmlTagPat, "", string, 0, FALSE), 0, FALSE),
              " ", "-"))

slug(string, lowercase) ==
    KeepSlugChars(
      Replace(Sub(HtmlEntityPat, "",
                  Sub(HtmlTagPat, "", IF lowercase THEN Lower(string) ELSE string, 0, FALSE),
                  0, FALSE),
              " ", "-"))

AnyTagPat == <<Lit("<"), Lazy1, Lit(">")>>

\* re.sub(r"(<.+?>|[ ])", "", header), the version 1 anchor value: a is the
\* next tag and b the position of the next space
RECURSIVE DropTagsAndSpaces(_, _)
DropNext(s, from, a, b) ==
    LET start == IF a = <<>> THEN b
                 ELSE IF b = 0 THEN a[1]
                 ELSE IF b < a[1] THEN b ELSE a[1]
        stop == IF a # <<>> /\ start = a[1] THEN a[2] ELSE start + 1
    IN  IF start = 0 THEN From(s, from)
        ELSE SubSeq(s, from, start - 1) \o DropTagsAndSpaces(s, stop)
DropTagsAndSpaces(s, from) ==
    DropNext(s, from, Search(s, AnyTagPat, from, FALSE), Find(s, " ", from))

ref_prefixes == [default |-> "#", bitbucket |-> "#markdown-header-"]
\* a postfix without the underscore
ref_postfix_bare == ""

ref_postfix == "_"      \* "_%d" for both markdown sources

HeaderPat ==
    <<Lit("<h"), Rep("digit", 1, TRUE), Lit(">"), Mark, LazyAll, Mark,
      Lit("</h"), Rep("digit", 1, TRUE), Lit(">")>>

\* headers = re.findall(r"<h\d+>(.*?)</h\d+>", html, re.DOTALL)
Headers(html) == Groups(html, FindAll(html, HeaderPat, 1, FALSE), 3, 4)

HeaderKey(header, source) == ref_prefixes[source] \o slug(header, TRUE)

\* the versions for which the loop binds value
Versions == {1, 2}

\* the anchor value of a heading; any other version leaves value unbound
HeaderValue(header, version) ==
    IF version = 1 THEN DropTagsAndSpaces(header, 1) ELSE slug(header, FALSE)

\* d[key] = value
Put(d, key, value) ==
    [k \in (DOMAIN d) \cup {key} |-> IF k = key THEN value ELSE d[k]]

EmptyDict == [k \in {} |-> ""]

\* NextCount without the increment: the counter of a duplicate stays put
NextCountStuck(alt_count) == alt_count

\* the counter written back for a duplicate heading
NextCount(alt_count) == alt_count + 1

\* the body of the loop once key and value are computed
HeaderPut(st, key, value) ==
    IF key \in DOMAIN st.map
    THEN LET alt_count == st.count[key]
             alt_key == key \o ref_postfix \o IntToStr(alt_count)
             alt_value == value \o "." \o IntToStr(alt_count)
         IN  [map |-> Put(st.map, alt_key, alt_value),
              count |-> Put(st.count, key, NextCount(alt_count))]
    ELSE [map |-> Put(st.map, key, value), count |-> Put(st.count, key, 1)]

\* one iteration of "for header in headers" over [map, count]
HeaderStep(st, header, source, version) ==
    HeaderPut(st, HeaderKey(header, source), HeaderValue(header, version))

RECURSIVE HeaderMapFrom(_, _, _, _, _)
HeaderMapFrom(st, hs, k, source, version) ==
    IF k > Len(hs) THEN st
    ELSE HeaderMapFrom(HeaderStep(st, hs[k], source, version),
                       hs, k + 1, source, version)

\* headers_map and headers_count after the loop
HeaderMap(hs, source, version) ==
    HeaderMapFrom([map |-> EmptyDict, count |-> EmptyDict], hs, 1, source, version)

-----------------------------------------------------------------------------
(* Images, local links and page links of the page body                     *)

\* the address and the space the run publishes to
CONFLUENCE_API_URL == "https://org.atlassian.net/wiki"
SPACE_KEY == "DOC"

ImgPat == <<Lit("<img"), Mark, Lazy, Mark, Lit("/>")>>
SrcPat == <<Lit("src=\""), Mark, Lazy, Mark, Lit("\"")>>
AltPat == <<Lit("alt=\""), Mark, Lazy, Mark, Lit("\"")>>

\* re.findall("<img(.*?)\/>", html)
ImgTags(html) == Groups(html, FindAll(html, ImgPat, 1, FALSE), 3, 4)

\* re.search('src="(.*?)"', tag).group(1)
Attr(tag, pat) == Group(tag, Search(tag, pat, 1, FALSE), 3, 4)

\* a tag without src or alt: .group raises AttributeError
AttrMissing(tag) ==
    \/ Search(tag, SrcPat, 1, FALSE) = <<>>
    \/ Search(tag, AltPat, 1, FALSE) = <<>>

\* os.path.basename(path); slashes holds the positions of "/"
AfterLast(path, slashes) == IF slashes = {} THEN path ELSE From(path, Max(slashes) + 1)
Basename(path) == AfterLast(path, {i \in 1..Len(path) : At(path, i) = "/"})

\* s.endswith(p)
EndsWith(s, p) == Len(p) <= Len(s) /\ From(s, Len(s) - Len(p) + 1) = p

\* re.search("http.*", path)
IsRemote(path) == Contains(path, "http")

DownloadRoot ==
    IF EndsWith(CONFLUENCE_API_URL, "/wiki") THEN "/wiki/download/attachments/"
    ELSE "/download/attachments/"

\* the page after the loop body of add_images for the image at rel_path
RehomeImage(html, rel_path, page_id) ==
    IF IsRemote(rel_path) THEN html
    ELSE Replace(html, rel_path, DownloadRoot \o IntToStr(page_id) \o "/" \o Basename(rel_path))

\* add_images of a page whose files are all at hand: tags is
\* re.findall("<img(.*?)\/>", html) of the page as it came in
RECURSIVE RehomeAll(_, _, _, _)
RehomeAll(html, tags, k, page_id) ==
    IF k > Len(tags) THEN html
    ELSE RehomeAll(RehomeImage(html, Attr(tags[k], SrcPat), page_id), tags, k + 1, page_id)
add_images(page_id, html) == RehomeAll(html, ImgTags(html), 1, page_id)

\* sep.join(s.split()); t is s without the white space around it
RECURSIVE JoinFrom(_, _)
JoinFrom(t, sep) ==
    IF t = "" THEN ""
    ELSE IF IsSpace(At(t, 1)) THEN sep \o JoinFrom(Strip(t), sep)
    ELSE At(t, 1) \o JoinFrom(From(t, 2), sep)
JoinWords(s, sep) == JoinFrom(Strip(s), sep)

LocalLinkPat == <<Lit("<a href=\"#"), Lazy1, Lit("\">"), Lazy1, Lit("</a>")>>
LocalLinkParts ==
    <<Lit("<a href=\""), Mark, Lit("#"), Lazy1, Mark, Lit("\">"), Mark, Lazy1, Mark,
      Lit("</a>")>>

\* links = re.findall(r'<a href="#.+?">.+?</a>', html)
LocalLinks(html) == Fragments(html, FindAll(html, LocalLinkPat, 1, FALSE))

\* re.sub(r"( *<.+?> *)", " ", alt)
SpacedTagPat == <<Rep("blank", 0, TRUE), Lit("<"), Lazy1, Lit(">"), Rep("blank", 0, TRUE)>>
PlainAlt(alt) == Sub(SpacedTagPat, " ", alt, 0, FALSE)

\* base_uri; space is SPACE_KEY in md2conf.py and the space id in the package
BaseUri(space, page_id, title) ==
    CONFLUENCE_API_URL \o "/spaces/" \o space \o "/pages/" \o IntToStr(page_id)
    \o "/" \o JoinWords(title, "+")

\* the replacement of a local link under each editor version
AnchorLink(result_ref, alt) ==
    "<ac:link ac:anchor=\"" \o result_ref \o "\"><ac:plain-text-link-body><![CDATA["
    \o PlainAlt(alt) \o "]]></ac:plain-text-link-body></ac:link>"
TitledLink(uri, alt) ==
    "<a href=\"" \o uri \o "\" title=\"" \o alt \o "\">" \o alt \o "</a>"

\* headers_map.get(ref), "" for None
LinkTarget(map, ref) == IF ref \in DOMAIN map THEN map[ref] ELSE ""

\* one iteration of "for link in links": result_ref is the target of the link
\* and alt its text
RewriteLink(html, link, result_ref, alt, base_uri, version) ==
    IF result_ref = "" THEN html
    ELSE Replace(html, link,
                 IF version = 1 THEN AnchorLink(result_ref, alt)
                 ELSE TitledLink(base_uri \o "#" \o result_ref, alt))

\* m is re.search(r'<a href="(#.+?)">(.+?)</a>', link)
RewriteMatch(html, link, m, map, base_uri, version) ==
    RewriteLink(html, link, LinkTarget(map, Group(link, m, 3, 4)), Group(link, m, 5, 6),
                base_uri, version)

RECURSIVE RewriteLinks(_, _, _, _, _, _)
RewriteLinks(html, links, k, map, base_uri, version) ==
    IF k > Len(links) THEN html
    ELSE RewriteLinks(RewriteMatch(html, links[k], Search(links[k], LocalLinkParts, 1, FALSE),
                                   map, base_uri, version),
                      links, k + 1, map, base_uri, version)

\* "if ref not in headers_map" holds for some link (md2conf.py: sys.exit(1))
DeadLink(links, map) ==
    \E k \in 1..Len(links) :
       Attr(links[k], LocalLinkParts) \notin DOMAIN map

\* add_local_refs once the headings hs are found: no heading, no rewriting
LocalRefsOf(html, hs, base_uri, source, version) ==
    IF hs = <<>> THEN html
    ELSE RewriteLinks(html, LocalLinks(html), 1, HeaderMap(hs, source, version).map,
                      base_uri, version)

add_local_refs(page_id, space, title, html, source, version) ==
    LocalRefsOf(html, Headers(html), BaseUri(space, page_id, title), source, version)

\* md2conf.py leaves through sys.exit(1) on a link to no heading
DeadLinkOf(html, hs, source, version) ==
    /\ hs # <<>>
    /\ DeadLink(LocalLinks(html), HeaderMap(hs, source, version).map)
add_local_refs_exits(html, source, version) ==
    DeadLinkOf(html, Headers(html), source, version)

\* both loops read value or replacement, bound for the versions 1 and 2 only
add_local_refs_raises(html, version) == version \notin Versions /\ Headers(html) # <<>>

PageLinkPat == <<Lit("<a href=\""), Lazy1, Lit(".md\">"), Lazy1, Lit("</a>")>>
PageLinkParts ==
    <<Lit("<a href=\""), Mark, Lazy1, Lit(".md"), Mark, Lit("\">"), Mark, Lazy1, Mark,
      Lit("</a>")>>

\* links = re.findall(r'<a href=".+?\.md">.+?</a>', html)
PageLinks(html) == Fragments(html, FindAll(html, PageLinkPat, 1, FALSE))

\* the keys of PAGES_MAP that ref starts with
MatchingKeys(pages_map, ref) ==
    {k \in 1..Len(pages_map) : StartsAt(ref, 1, pages_map[k].key)}

\* html.replace(link, '<a href="%s" title="%s">%s</a>' % (page.link, alt, alt))
RewritePageLink(html, link, m, page_link) ==
    Replace(html, link, TitledLink(page_link, Group(link, m, 5, 6)))

\* add_pages_refs when every linked file is read and its page found at
\* page_link
RewritePageLinkAt(html, link, m, pages_map, page_link) ==
    IF MatchingKeys(pages_map, Group(link, m, 3, 4)) = {} THEN html
    ELSE RewritePageLink(html, link, m, page_link)
RECURSIVE RewritePageLinks(_, _, _, _, _)
RewritePageLinks(html, links, k, pages_map, page_link) ==
    IF k > Len(links) THEN html
    ELSE RewritePageLinks(RewritePageLinkAt(html, links[k],
                                            Search(links[k], PageLinkParts, 1, FALSE),
                                            pages_map, page_link),
                          links, k + 1, pages_map, page_link)
add_pages_refs(html, pages_map, page_link) ==
    IF pages_map = <<>> THEN html
    ELSE RewritePageLinks(html, PageLinks(html), 1, pages_map, page_link)

\* the page properties macro main of md2conf.py puts in front of the page
Indent(n) == SubSeq("                ", 1, n)
DetailRow(d) == "<tr><th>" \o d.key \o "</th><td>" \o d.value \o "</td></tr>"
DetailsMacro(details, hidden) ==
    "\n" \o Indent(10) \o "<ac:structured-macro ac:name=\"details\">\n"
    \o Indent(12) \o "<ac:parameter ac:name=\"hidden\">"
    \o (IF hidden THEN "True" ELSE "False") \o "</ac:parameter>\n"
    \o Indent(12) \o "<ac:rich-text-body>\n"
    \o Indent(14) \o "<table>\n"
    \o Indent(16) \o "<tbody>"
    \o Concat(Each(details, DetailRow))
    \o "\n" \o Indent(16) \o "</tbody>\n"
    \o Indent(14) \o "</table>\n"
    \o Indent(12) \o "</ac:rich-text-body>\n"
    \o Indent(10) \o "</ac:structured-macro>"

-----------------------------------------------------------------------------
(* Configuration                                                           *)

Variants == {"converter", "package", "md2conf"}

\* the defaults of the argument parser (the package's: version 2); "" and
\* <<>> stand for an option that is not given
DefaultCfg ==
    [variant |-> "converter", TITLE |-> "", REMOVE_EMOJIES |-> FALSE,
     CONTENTS |-> FALSE, VERSION |-> 2, MARKDOWN_SOURCE |-> "default",
     SIMULATE |-> FALSE, DELETE |-> FALSE, ANCESTOR |-> "", ATTACHMENTS |-> <<>>,
     PROPERTIES |-> <<>>, LABELS |-> <<>>, DETAILS |-> <<>>,
     DETAILS_VISIBILITY |-> FALSE, PAGES_MAP |-> <<>>]

NoRet == [raised |-> FALSE, value |-> ""]
Returned(v) == [raised |-> FALSE, value |-> v]
Raised == [raised |-> TRUE, value |-> ""]

\* a Python value that is either None or a str
None == [none |-> TRUE, text |-> ""]
Str(t) == [none |-> FALSE, text |-> t]

\* get_page returned False
NoPage == [found |-> FALSE, id |-> 0, version |-> 0, spaceId |-> 0, link |-> "",
           properties |-> <<>>]

\* the locals of main before its first statement
NoLocals ==
    [title |-> "", page |-> NoPage, parent_page_id |-> 0, page_id |-> 0,
     page_version |-> 0, body |-> None, props |-> <<>>, items |-> <<>>, i |-> 0,
     asked |-> FALSE]

\* the drivers and the functions of the converter are checked against
\* scripted answers: they keep no state of Confluence
NoServer == [exists |-> FALSE]

IdleFn == arg = <<>> /\ ret = NoRet /\ stage = "idle"
IdleHdr == headers = <<>> /\ hidx = 0 /\ hstate = [map |-> EmptyDict, count |-> EmptyDict]
IdleDrv ==
    /\ pc = "idle" /\ main_html = None /\ log = <<>> /\ loc = NoLocals
    /\ space_id = -1 /\ reqs = <<>> /\ status = "idle" /\ srv = NoServer

\* sequences over S of length lo..hi
SeqsOf(S, lo, hi) == UNION {[1..n -> S] : n \in lo..hi}

-----------------------------------------------------------------------------
(* The drivers: the conversion of a document, then the requests of a       *)
(* publishing run (C1-C3)                                                  *)

\* PassOrder with the code blocks converted before the info macros
PassOrderSwapped(variant) ==
    IF variant = "md2conf"
    THEN <<"title", "details", "toc", "code", "comment", "info", "iframe", "emoji",
           "contents", "refs">>
    ELSE <<"title", "toc", "code", "comment", "info", "emoji", "contents", "refs">>

\* the steps of the conversion in the order of the source:
\* get_html_from_markdown of the class and of the package, main of md2conf.py
PassOrder(variant) ==
    IF variant = "md2conf"
    THEN <<"title", "details", "toc", "info", "comment", "code", "iframe", "emoji",
           "contents", "refs">>
    ELSE <<"title", "toc", "info", "comment", "code", "emoji", "contents", "refs">>

\* the condition the source puts on a step
Runs(c, step) ==
    CASE step = "title" -> c.TITLE = ""
      [] step = "details" -> c.DETAILS # <<>>
      [] step = "emoji" -> c.REMOVE_EMOJIES
      [] step = "contents" -> c.CONTENTS
      [] OTHER -> TRUE

\* the place of a step in an order, 0 when it is not in it
Position(order, step) == FirstOf({k \in DOMAIN order : order[k] = step})

\* the step that runs after the k-th of the order
StepAfter(c, order, k) ==
    LET later == {j \in (k + 1)..Len(order) : Runs(c, order[j])}
    IN  IF later = {} THEN "converted" ELSE order[Min(later)]
NextPass(c, step) ==
    StepAfter(c, PassOrder(c.variant), Position(PassOrder(c.variant), step))

\* the first line of the markdown file and the page the renderer makes of it
Doc(rest) == [line |-> "# Guide\n", rendered |-> "<h1>Guide</h1>" \o rest]

PlainDoc == Doc("\n<p>text</p>")
LinkedDoc ==
    Doc("\n<p>[TOC]</p>\n<h2>Set up</h2>\n<p>See <a href=\"#set-up\">set up</a> and "
        \o "<img alt=\"logo\" src=\"img/logo.png\" /></p>")
MarkupDoc ==
    Doc("\n<blockquote>\n<p>Note: careful</p>\n</blockquote>\n<!-- hidden -->\n"
        \o "<pre><code class=\"py\">x = 1\n</code></pre>\n"
        \o "<p><iframe src=\"//v\"></iframe> @</p>\n"
        \o "<p>cite[^1]</p>\n<p>[^1]: <a href=\"http://x\">http://x</a></p>")
DeadLinkDoc == Doc("\n<h2>Set up</h2>\n<p><a href=\"#nowhere\">gone</a></p>")
PageLinkDoc == Doc("\n<p><a href=\"docs/other.md\">other</a></p>")
\* a Note blockquote without a paragraph, a footnote without an anchor
BareQuoteDoc == Doc("\n<blockquote>Note: bare</blockquote>")
BareRefDoc == Doc("\n<p>cite[^1]</p>\n<p>[^1]: plain words</p>")

PublishDocs == {PlainDoc, LinkedDoc, DeadLinkDoc, PageLinkDoc}
ConvertDocs == PublishDocs \cup {MarkupDoc, BareQuoteDoc, BareRefDoc}

TitleArgs == {"", "My Page"}
AttachmentArgs == {<<>>, <<"notes.txt">>}
PropertyArgs == {<<>>, <<[key |-> "owner", value |-> "me"]>>}
DetailArgs == {<<>>, <<[key |-> "owner", value |-> "me"]>>}
PagesMapArgs == {<<>>, <<[key |-> "docs/", dir |-> "/src/docs"]>>}

\* the defaults of a script: md2conf.py writes for editor version 1
ScriptCfg(variant) ==
    [DefaultCfg EXCEPT !.variant = variant,
                       !.VERSION = IF variant = "md2conf" THEN 1 ELSE 2]

\* the options md2conf.py alone takes
OnlyMd2conf(c) ==
    c.variant = "md2conf" \/ (c.DETAILS = <<>> /\ c.PAGES_MAP = <<>>)

\* the runs that end with the conversion: the class, and the scripts under
\* --simulate
ConvertCfgs ==
    {c \in {[ScriptCfg(v) EXCEPT !.TITLE = t, !.REMOVE_EMOJIES = e, !.CONTENTS = n,
                                 !.DETAILS = d, !.SIMULATE = (v # "converter")] :
              v \in Variants, t \in TitleArgs, e \in BOOLEAN, n \in BOOLEAN,
              d \in DetailArgs} : OnlyMd2conf(c)}

\* the runs that go on to Confluence
PublishCfgs ==
    {c \in {[ScriptCfg(v) EXCEPT !.TITLE = t, !.DELETE = d,
                                 !.ANCESTOR = IF a THEN "Parent" ELSE "",
                                 !.ATTACHMENTS = f, !.PROPERTIES = p, !.PAGES_MAP = m] :
              v \in Variants \ {"converter"}, t \in TitleArgs, d \in BOOLEAN,
              a \in BOOLEAN, f \in AttachmentArgs, p \in PropertyArgs,
              m \in PagesMapArgs} : OnlyMd2conf(c)}

\* what the Confluence instance answers when it answers with a result
Server ==
    [space |-> 5,
     page |-> [found |-> TRUE, id |-> 7, version |-> 3, spaceId |-> 5,
               link |-> CONFLUENCE_API_URL \o "/spaces/DOC/pages/7/Guide",
               properties |-> <<>>],
     parent |-> [found |-> TRUE, id |-> 3, version |-> 2, spaceId |-> 5,
                 link |-> CONFLUENCE_API_URL \o "/spaces/DOC/pages/3/Parent",
                 properties |-> <<>>],
     created |-> [id |-> 9, version |-> 1],
     target |-> [title |-> "Other",
                 link |-> CONFLUENCE_API_URL \o "/spaces/DOC/pages/8/Other"],
     attachment |-> 31]

\* the content properties a page can hold
PageProps ==
    {<<>>,
     <<[key |-> "owner", value |-> "old", version |-> 2, id |-> 22]>>,
     <<[key |-> "editor", value |-> "v1", version |-> 1, id |-> 21]>>}

\* get_page of md2conf.py asks for the properties named by --property
FoundProps(c) ==
    IF c.variant = "md2conf" /\ c.PROPERTIES # <<>>
    THEN {p \in PageProps : \A k \in 1..Len(p) : p[k].key # "editor"}
    ELSE {<<>>}

\* the version update_page sends as it was passed in
VersionKept(version) == version

\* "version": {"number": version + 1, ...} of update_page
NextVersion(version) == version + 1

\* a request: what it asks for, of which page, what it carries, and the
\* status it is answered with
Req(op, id, version, title, body, parent, name, att) ==
    [op |-> op, id |-> id, version |-> version, title |-> title, body |-> body,
     parent |-> parent, name |-> name, att |-> att, answer |-> 200]

\* the last request of rq is answered with code
Answered(rq, code) == [rq EXCEPT ![Len(rq)].answer = code]

\* the version and id a property of key takes among the existing ones
PropVersion(existing, key) ==
    LET same == {k \in 1..Len(existing) : existing[k].key = key}
    IN  IF same = {} THEN 1 ELSE existing[Min(same)].version + 1
PropId(existing, key) ==
    LET same == {k \in 1..Len(existing) : existing[k].key = key}
    IN  IF same = {} THEN 0 ELSE existing[Min(same)].id

\* the properties dictionary main and create_page of md2conf.py build, and the
\* second loop of the package's main; id 0 stands for a property without id
PropertiesFor(properties, existing) ==
    [k \in 1..Len(properties) |->
       [key |-> properties[k].key, value |-> properties[k].value,
        version |-> PropVersion(existing, properties[k].key),
        id |-> PropId(existing, properties[k].key)]]

\* the first loop of the package's main: the editor property follows VERSION
EditorUpdates(existing, version) ==
    LET stale(p) == p.key = "editor" /\ p.value # "v" \o IntToStr(version)
        update(p) == [key |-> "editor", value |-> "v" \o IntToStr(version),
                      version |-> p.version + 1, id |-> p.id]
    IN  Each(SelectSeq(existing, stale), update)

properties_for_update(existing, properties, version) ==
    EditorUpdates(existing, version) \o PropertiesFor(properties, existing)

\* PublishOrder with the page update ahead of the uploads
PublishOrderUpdateFirst(variant) ==
    IF variant = "md2conf"
    THEN <<"update_page", "add_images", "add_attachments", "add_local_refs",
           "add_pages_refs", "update_page_property">>
    ELSE <<"update_page", "add_attachments", "get_page_properties", "add_images",
           "add_local_refs", "update_page_property">>

\* the order of the calls once the page is known: main of the package
\* (add_attachments to update_page_property), update_page of md2conf.py
PublishOrder(variant) ==
    IF variant = "md2conf"
    THEN <<"add_images", "add_attachments", "add_local_refs", "add_pages_refs",
           "update_page", "update_page_property">>
    ELSE <<"add_attachments", "get_page_properties", "add_images", "add_local_refs",
           "update_page", "update_page_property">>

StageAt(order, k) == IF k = Len(order) THEN "done" ELSE order[k + 1]
StageAfter(variant, call) ==
    StageAt(PublishOrder(variant), Position(PublishOrder(variant), call))

\* what the loop of a call runs over
ItemsOf(l, call, b) ==
    CASE call = "add_images" -> IF b.none THEN <<>> ELSE ImgTags(b.text)
      [] call = "add_attachments" -> cfg.ATTACHMENTS
      [] call = "add_pages_refs" ->
           IF cfg.PAGES_MAP = <<>> \/ b.none THEN <<>> ELSE PageLinks(b.text)
      [] call = "update_page_property" -> l.props
      [] OTHER -> <<>>

Enter(l, call, b) ==
    [l EXCEPT !.items = ItemsOf(l, call, b), !.i = 0, !.asked = FALSE]

Running == status = "running"

\* the page body in work: main's html in the package, the parameter body of
\* update_page in md2conf.py
Body == IF cfg.variant = "md2conf" THEN loc.body ELSE main_html

\* one step of a driver: how it goes on, at which statement, with which
\* locals, page body and requests
Step(st, at, l, b, rq) ==
    /\ status' = st
    /\ pc' = at
    /\ reqs' = rq
    /\ IF cfg.variant = "md2conf"
       THEN loc' = [l EXCEPT !.body = b] /\ main_html' = main_html
       ELSE loc' = l /\ main_html' = b

\* the process ends
Die(st, rq) == Step(st, "done", loc, Body, rq)

Goto(call, l, b, rq) ==
    IF call = "done" THEN Step("completed", "done", l, b, rq)
    ELSE Step("running", call, Enter(l, call, b), b, rq)

\* on to the call after this one
Leave(l, b, rq) == Goto(StageAfter(cfg.variant, pc), l, b, rq)

\* the end of one iteration of a loop
Iterate(l, b, rq) ==
    IF l.i + 1 < Len(l.items) THEN Step("running", pc, [l EXCEPT !.i = @ + 1], b, rq)
    ELSE Leave(l, b, rq)

\* what the publishing steps leave alone
Kept == UNCHANGED <<cfg, fnVars, hdrVars, log, space_id, srv>>

Init ==
    /\ cfg \in ConvertCfgs \cup PublishCfgs
    /\ arg \in (IF cfg.SIMULATE \/ cfg.variant = "converter" THEN ConvertDocs
                ELSE PublishDocs)
    /\ ret = NoRet
    /\ stage = "idle"
    /\ IdleHdr
    /\ pc = "start"
    /\ main_html = None
    /\ log = <<>>
    /\ loc = NoLocals
    /\ space_id = -1
    /\ reqs = <<>>
    /\ status = "running"
    /\ srv = NoServer

\* the title of the page, then markdown.markdown(...)
Render ==
    /\ pc = "start"
    /\ Running
    /\ main_html' = Str(arg.rendered)
    /\ loc' = IF cfg.variant = "converter" THEN loc
              ELSE [loc EXCEPT !.title = IF cfg.TITLE # "" THEN cfg.TITLE
                                         ELSE Strip(LStripChar(arg.line, "#"))]
    /\ pc' = NextPass(cfg, "start")
    /\ UNCHANGED <<cfg, fnVars, hdrVars, log, space_id, reqs, status, srv>>

\* one step of the conversion: it raises AttributeError or assigns html
RunPass(name, raises, out) ==
    /\ Running
    /\ log' = Append(log, name)
    /\ IF raises
       THEN main_html' = main_html /\ pc' = "done" /\ status' = "AttributeError"
       ELSE main_html' = Str(out) /\ pc' = NextPass(cfg, name) /\ status' = status
    /\ UNCHANGED <<cfg, fnVars, hdrVars, loc, space_id, reqs, srv>>

PassTitle ==
    /\ pc = "title"
    /\ RunPass("title", FALSE, DropFirstLine(main_html.text))

PassDetails ==
    /\ pc = "details"
    /\ RunPass("details", FALSE,
               DetailsMacro(cfg.DETAILS, cfg.DETAILS_VISIBILITY) \o main_html.text)

PassToc ==
    /\ pc = "toc"
    /\ RunPass("toc", FALSE, create_table_of_content(main_html.text))

PassInfo ==
    /\ pc = "info"
    /\ RunPass("info", convert_info_macros_raises(main_html.text),
               ConvertInfoMacros(cfg.variant, main_html.text))

PassComment ==
    /\ pc = "comment"
    /\ RunPass("comment", FALSE, convert_comment_block(main_html.text))

PassCode ==
    /\ pc = "code"
    /\ RunPass("code", FALSE,
               IF cfg.variant = "md2conf" THEN md2conf_convert_code_block(main_html.text)
               ELSE convert_code_block(main_html.text))

PassIframe ==
    /\ pc = "iframe"
    /\ RunPass("iframe", FALSE, convert_iframe_macros(main_html.text))

PassEmoji ==
    /\ pc = "emoji"
    /\ RunPass("emoji", FALSE, remove_emojies(main_html.text))

PassContents ==
    /\ pc = "contents"
    /\ RunPass("contents", FALSE, add_contents(main_html.text))

PassRefs ==
    /\ pc = "refs"
    /\ RunPass("refs", process_refs_raises(main_html.text), process_refs(main_html.text))

\* MarkdownConverter.get_html_from_markdown: return html
ReturnHtml ==
    /\ pc = "converted"
    /\ Running
    /\ cfg.variant = "converter"
    /\ ret' = Returned(main_html.text)
    /\ pc' = "done"
    /\ status' = "returned"
    /\ UNCHANGED <<cfg, arg, stage, hdrVars, main_html, log, loc, space_id, reqs, srv>>

\* main without "if SIMULATE: sys.exit(0)"
EndConversionGoesOn ==
    /\ pc = "converted"
    /\ Running
    /\ cfg.variant # "converter"
    /\ main_html' = IF cfg.variant = "package" THEN None ELSE main_html
    /\ pc' = "get_page" /\ status' = status
    /\ UNCHANGED <<cfg, fnVars, hdrVars, log, loc, space_id, reqs, srv>>

\* the scripts: get_html_from_markdown of the package ends without a return
\* statement, so main's html is None; then "if SIMULATE: sys.exit(0)"
EndConversion ==
    /\ pc = "converted"
    /\ Running
    /\ cfg.variant # "converter"
    /\ main_html' = IF cfg.variant = "package" THEN None ELSE main_html
    /\ IF cfg.SIMULATE THEN pc' = "done" /\ status' = "exit 0"
       ELSE pc' = "get_page" /\ status' = status
    /\ UNCHANGED <<cfg, fnVars, hdrVars, log, loc, space_id, reqs, srv>>

\* the calls of the client that start with get_space_id
SpaceUsers == {"get_page", "get_parent", "create_page", "update_page"}

\* get_space_id has answered for the call main is in
SpaceAsked == cfg.variant = "package" => (space_id > -1 \/ loc.asked)

\* ConfluenceApiClient.get_space_id without a remembered id: a 404 or an
\* empty result leaves -1, any other error status ends the process
GetSpaceId ==
    /\ pc \in SpaceUsers
    /\ Running
    /\ cfg.variant = "package"
    /\ space_id = -1
    /\ ~loc.asked
    /\ \E out \in {"found", "none", "error"} :
         LET rq == Append(reqs, Req("get_space_id", 0, 0, "", None, 0, SPACE_KEY, 0))
         IN  /\ space_id' = IF out = "found" THEN Server.space ELSE space_id
             /\ IF out = "error" THEN Die("exit 1", Answered(rq, 500))
                ELSE Step("running", pc, [loc EXCEPT !.asked = TRUE], Body, rq)
    /\ UNCHANGED <<cfg, fnVars, hdrVars, log, srv>>

\* the page exists or is to be created: "if not page: ... else: ..." of the
\* package, "if page: ... else: ..." of md2conf.py
Settle(l, rq) ==
    IF ~l.page.found THEN Step("running", "create_page", l, Body, rq)
    ELSE Goto(PublishOrder(cfg.variant)[1],
              [l EXCEPT !.page_id = l.page.id, !.page_version = l.page.version,
                        !.props = IF cfg.variant = "md2conf"
                                  THEN PropertiesFor(cfg.PROPERTIES, l.page.properties)
                                  ELSE <<>>],
              main_html, rq)

\* main after get_page(title)
AfterLookup(l, rq) ==
    IF cfg.DELETE /\ l.page.found THEN Step("running", "delete_page", l, Body, rq)
    ELSE IF cfg.ANCESTOR # "" THEN Step("running", "get_parent", l, Body, rq)
    ELSE Settle(l, rq)

\* get_page(title): the session retries a 404 and a 5xx answer, and when they
\* go on the HTTP library raises or hands the last answer on
GetPage ==
    /\ pc = "get_page"
    /\ Running
    /\ SpaceAsked
    /\ \E out \in {"found", "none", "not found", "error", "retries"},
          props \in FoundProps(cfg) :
         LET rq == Append(reqs, Req("get_page", 0, 0, loc.title, None, 0, "", 0))
         IN  CASE out = "found" ->
                    AfterLookup([loc EXCEPT !.page = [Server.page EXCEPT !.properties = props],
                                            !.asked = FALSE], rq)
               [] out = "none" -> AfterLookup([loc EXCEPT !.asked = FALSE], rq)
               [] out = "not found" ->
                    IF cfg.variant = "package"
                    THEN AfterLookup([loc EXCEPT !.asked = FALSE], Answered(rq, 404))
                    ELSE Die("exit 1", Answered(rq, 404))
               [] out = "error" -> Die("exit 1", Answered(rq, 500))
               [] out = "retries" -> Die("RetryError", Answered(rq, 500))
    /\ Kept

\* delete_page(page.id), then sys.exit(1)
DeletePage ==
    /\ pc = "delete_page"
    /\ Running
    /\ \E out \in {"answered", "error"} :
         LET rq == Append(reqs, Req("delete_page", loc.page.id, 0, "", None, 0, "", 0))
         IN  IF out = "error" THEN Die("HTTPError", Answered(rq, 500))
             ELSE Die("exit 1", Answered(rq, 204))
    /\ Kept

\* get_page(ANCESTOR): without the parent page the process ends
GetParent ==
    /\ pc = "get_parent"
    /\ Running
    /\ SpaceAsked
    /\ \E out \in {"found", "none", "error", "retries"} :
         LET rq == Append(reqs, Req("get_page", 0, 0, cfg.ANCESTOR, None, 0, "", 0))
         IN  CASE out = "found" ->
                    Settle([loc EXCEPT !.parent_page_id = Server.parent.id,
                                       !.asked = FALSE], rq)
               [] out = "none" -> Die("exit 1", rq)
               [] out = "error" -> Die("exit 1", Answered(rq, 500))
               [] out = "retries" -> Die("RetryError", Answered(rq, 500))
    /\ Kept

\* img_check or local_ref_check or properties or ATTACHMENTS or LABELS
NeedsUpdate(body, props) ==
    \/ Search(body, ImgPat, 1, FALSE) # <<>>
    \/ Search(body, LocalLinkParts, 1, FALSE) # <<>>
    \/ props # <<>>
    \/ cfg.ATTACHMENTS # <<>>
    \/ cfg.LABELS # <<>>

\* create_page of md2conf.py after the answer 200
Created(l, rq) ==
    IF NeedsUpdate(main_html.text, l.props) THEN Goto(PublishOrder(cfg.variant)[1], l, main_html, rq)
    ELSE Step("completed", "done", l, Body, rq)

\* create_page(title, html, parent). The package: the client returns a named
\* tuple after the answer 200 and the dictionary {"id", "spaceId", "version"}
\* otherwise, and main subscripts either with "id", "version", "space_id".
\* md2conf.py: any answer but 200 ends the process.
CreatePage ==
    /\ pc = "create_page"
    /\ Running
    /\ SpaceAsked
    /\ \E out \in {"created", "other", "error"} :
         LET rq == Append(reqs, Req("create_page", 0, 0, loc.title, main_html,
                                    loc.parent_page_id, "", 0))
         IN  CASE out = "error" -> Die("exit 1", Answered(rq, 500))
               [] out = "other" ->
                    IF cfg.variant = "package" THEN Die("KeyError", Answered(rq, 404))
                    ELSE Die("exit 1", Answered(rq, 201))
               [] out = "created" ->
                    IF cfg.variant = "package" THEN Die("TypeError", rq)
                    ELSE Created([loc EXCEPT !.page_id = Server.created.id,
                                             !.page_version = Server.created.version,
                                             !.props = PropertiesFor(cfg.PROPERTIES, <<>>)],
                                 rq)
    /\ Kept

\* upload_attachment: the ways it can go for a file, and what it sends
UploadOutcomes(file) ==
    IF IsRemote(file) THEN {"skipped"}
    ELSE {"skipped", "get fails", "post fails", "replace fails", "added", "replaced"}
UploadReqs(page_id, file, out) ==
    LET get == Req("get_attachment", page_id, 0, "", None, 0, Basename(file), 0)
        post(att) == Req("upload_attachment", page_id, 0, "", None, 0, Basename(file), att)
    IN  CASE out = "skipped" -> <<>>
          [] out = "get fails" -> Answered(<<get>>, 500)
          [] out = "replaced" -> <<get, post(Server.attachment)>>
          [] out = "replace fails" -> Answered(<<get, post(Server.attachment)>>, 500)
          [] out = "post fails" -> Answered(<<get, post(0)>>, 500)
          [] OTHER -> <<get, post(0)>>
UploadStatus(out) ==
    IF out \in {"get fails", "post fails", "replace fails"} THEN "HTTPError" ELSE "running"

\* one iteration of the loop of add_images over the image at rel_path
RehomeStep(rel_path) ==
    \E out \in UploadOutcomes(rel_path) :
       IF UploadStatus(out) # "running"
       THEN Die(UploadStatus(out), reqs \o UploadReqs(loc.page_id, rel_path, out))
       ELSE Iterate(loc, Str(RehomeImage(Body.text, rel_path, loc.page_id)),
                    reqs \o UploadReqs(loc.page_id, rel_path, out))

\* add_images(page_id, html): re.findall raises TypeError on None
AddImage ==
    /\ pc = "add_images"
    /\ Running
    /\ IF Body.none THEN Die("TypeError", reqs)
       ELSE IF loc.items = <<>> THEN Leave(loc, Body, reqs)
       ELSE IF AttrMissing(loc.items[loc.i + 1]) THEN Die("AttributeError", reqs)
       ELSE RehomeStep(Attr(loc.items[loc.i + 1], SrcPat))
    /\ Kept

\* one iteration of the loop of add_attachments
AddAttachment ==
    /\ pc = "add_attachments"
    /\ Running
    /\ IF loc.items = <<>> THEN Leave(loc, Body, reqs)
       ELSE \E out \in UploadOutcomes(loc.items[loc.i + 1]) :
              IF UploadStatus(out) # "running"
              THEN Die(UploadStatus(out),
                       reqs \o UploadReqs(loc.page_id, loc.items[loc.i + 1], out))
              ELSE Iterate(loc, Body,
                           reqs \o UploadReqs(loc.page_id, loc.items[loc.i + 1], out))
    /\ Kept

\* client.get_page_properties(page_id) and the two loops of the package's
\* main that fill properties_for_update
GetPageProperties ==
    /\ pc = "get_page_properties"
    /\ Running
    /\ \E out \in {"found", "not found", "error", "retries"}, existing \in PageProps :
         LET rq == Append(reqs, Req("get_page_properties", loc.page_id, 0, "", None,
                                    0, "", 0))
             found == IF out = "found" THEN existing ELSE <<>>
         IN  CASE out \in {"found", "not found"} ->
                    Leave([loc EXCEPT !.props =
                             properties_for_update(found, cfg.PROPERTIES, cfg.VERSION)],
                          Body, IF out = "found" THEN rq ELSE Answered(rq, 404))
               [] out = "error" -> Die("exit 1", Answered(rq, 500))
               [] out = "retries" -> Die("RetryError", Answered(rq, 500))
    /\ Kept

\* add_local_refs(page_id, title, html); the package passes the space id
AddLocalRefs ==
    /\ pc = "add_local_refs"
    /\ Running
    /\ IF Body.none THEN Die("TypeError", reqs)
       ELSE IF add_local_refs_raises(Body.text, cfg.VERSION)
       THEN Die("UnboundLocalError", reqs)
       ELSE IF /\ cfg.variant = "md2conf"
               /\ add_local_refs_exits(Body.text, cfg.MARKDOWN_SOURCE, cfg.VERSION)
       THEN Die("exit 1", reqs)
       ELSE Leave(loc,
                  Str(add_local_refs(loc.page_id,
                                     IF cfg.variant = "md2conf" THEN SPACE_KEY
                                     ELSE IntToStr(loc.page.spaceId),
                                     loc.title, Body.text, cfg.MARKDOWN_SOURCE,
                                     cfg.VERSION)),
                  reqs)
    /\ Kept

\* one iteration of the loop of add_pages_refs over link, m its match: the
\* file the link names is read for its title and the page of that title
\* looked up. "except IOError" also takes the exception the HTTP library
\* raises when the retries run out, and the loop goes on.
PageRefStep(link, m) ==
    IF MatchingKeys(cfg.PAGES_MAP, Group(link, m, 3, 4)) = {} THEN Iterate(loc, Body, reqs)
    ELSE \E out \in {"unreadable", "found", "none", "error", "retries"} :
           LET rq == Append(reqs, Req("get_page", 0, 0, Server.target.title, None,
                                      0, "", 0))
           IN  CASE out = "unreadable" -> Iterate(loc, Body, reqs)
                 [] out = "found" ->
                      Iterate(loc, Str(RewritePageLink(Body.text, link, m,
                                                       Server.target.link)), rq)
                 [] out = "none" -> Die("exit 1", rq)
                 [] out = "error" -> Die("exit 1", Answered(rq, 500))
                 [] out = "retries" -> Iterate(loc, Body, Answered(rq, 500))

\* add_pages_refs(html) of md2conf.py
AddPageRef ==
    /\ pc = "add_pages_refs"
    /\ Running
    /\ IF loc.items = <<>> THEN Leave(loc, Body, reqs)
       ELSE PageRefStep(loc.items[loc.i + 1],
                        Search(loc.items[loc.i + 1], PageLinkParts, 1, FALSE))
    /\ Kept

\* the PUT of update_page. The package goes on to the properties whatever
\* the answer; md2conf.py ends on an error status and skips the properties
\* after any answer but 200.
UpdatePage ==
    /\ pc = "update_page"
    /\ Running
    /\ SpaceAsked
    /\ \E out \in {"updated", "other", "not found", "error"} :
         LET rq == Append(reqs, Req("update_page", loc.page_id, NextVersion(loc.page_version),
                                    loc.title, Body, loc.parent_page_id, "", 0))
         IN  CASE out = "updated" -> Leave(loc, Body, rq)
               [] out = "other" ->
                    IF cfg.variant = "package" THEN Leave(loc, Body, Answered(rq, 204))
                    ELSE Goto("done", loc, Body, Answered(rq, 204))
               [] out = "not found" ->
                    IF cfg.variant = "package" THEN Leave(loc, Body, Answered(rq, 404))
                    ELSE Die("exit 1", Answered(rq, 404))
               [] out = "error" -> Die("exit 1", Answered(rq, 500))
    /\ Kept

\* one iteration of the loop over the properties to update
UpdatePageProperty ==
    /\ pc = "update_page_property"
    /\ Running
    /\ IF loc.items = <<>> THEN Leave(loc, Body, reqs)
       ELSE \E out \in {"stored", "error"} :
              LET p == loc.items[loc.i + 1]
                  rq == Append(reqs, Req("update_page_property", loc.page_id, p.version,
                                         "", None, 0, p.key,
                                         IF cfg.variant = "package" THEN p.id ELSE 0))
              IN  IF out = "stored" THEN Iterate(loc, Body, rq)
                  ELSE Die(IF cfg.variant = "package" THEN "exit 1" ELSE "HTTPError",
                           Answered(rq, 500))
    /\ Kept

Next ==
    \/ Render
    \/ PassTitle
    \/ PassDetails
    \/ PassToc
    \/ PassInfo
    \/ PassComment
    \/ PassCode
    \/ PassIframe
    \/ PassEmoji
    \/ PassContents
    \/ PassRefs
    \/ ReturnHtml
    \/ EndConversion
    \/ GetSpaceId
    \/ GetPage
    \/ DeletePage
    \/ GetParent
    \/ CreatePage
    \/ AddImage
    \/ AddAttachment
    \/ GetPageProperties
    \/ AddLocalRefs
    \/ AddPageRef
    \/ UpdatePage
    \/ UpdatePageProperty

Spec == Init /\ [][Next]_vars

\* the passes of the conversion in the order they are to run
ClaimedOrder ==
    <<"title", "toc", "info", "comment", "code", "iframe", "emoji", "contents", "refs">>

\* the passes that are to run under the configuration c
IsDue(c, pass) ==
    CASE pass = "title" -> c.TITLE = ""
      [] pass = "iframe" -> c.variant = "md2conf"
      [] pass = "emoji" -> c.REMOVE_EMOJIES
      [] pass = "contents" -> c.CONTENTS
      [] OTHER -> TRUE
DuePasses(c) ==
    LET due(pass) == IsDue(c, pass)
    IN  SelectSeq(ClaimedOrder, due)

\* the passes that have run so far, in the order they ran
PassesRun ==
    LET claimed(step) == \E k \in DOMAIN ClaimedOrder : ClaimedOrder[k] = step
    IN  SelectSeq(log, claimed)

IsPrefix(s, t) == Len(s) <= Len(t) /\ s = SubSeq(t, 1, Len(s))

\* C1: at every moment of a conversion the passes that have run are a prefix
\* of title strip, [TOC], info macros, hidden comments, code blocks, iframes,
\* emoji stripping, contents page, footnotes, restricted to the passes the
\* configuration asks for (title strip without --title, iframes in md2conf.py,
\* emoji stripping and contents page when flagged): each pass runs at most
\* once and none before a pass listed earlier; a conversion that ends has run
\* them all.
PassesInOrder ==
    /\ IsPrefix(PassesRun, DuePasses(cfg))
    /\ (pc = "converted" \/ status \in {"returned", "exit 0", "completed"})
         => PassesRun = DuePasses(cfg)

\* md2conf.py has converted a document with every optional pass asked for
PassesInOrderWitness ==
    /\ cfg.variant = "md2conf"
    /\ pc = "converted"
    /\ cfg.REMOVE_EMOJIES
    /\ cfg.CONTENTS
    /\ PassesRun = ClaimedOrder
    /\ main_html.text # arg.rendered

\* the requests that carry a page body
Carriers == {k \in DOMAIN reqs : reqs[k].op \in {"create_page", "update_page"}}

\* the page body after image rehoming and local-anchor resolution
Resolved(c, l, html) ==
    add_local_refs(l.page_id, SPACE_KEY, l.title, add_images(l.page_id, html),
                   c.MARKDOWN_SOURCE, c.VERSION)

\* body is resolved, with its cross-page links rewritten or, where the linked
\* file or page is not at hand, left as written
CrossResolved(body, resolved) ==
    body \in {resolved, add_pages_refs(resolved, cfg.PAGES_MAP, Server.target.link)}

\* C2: in a publishing run every create and update request carries a body
\* that is present and not empty; the body of a create request is the
\* rendered HTML after all macro passes, and the body of an update request is
\* that HTML after image rehoming, then local-anchor and (md2conf.py)
\* cross-page resolution; the run never stops on a missing body.
BodyIsConverted ==
    /\ \A k \in Carriers :
          /\ ~reqs[k].body.none
          /\ reqs[k].body.text # ""
          /\ reqs[k].op = "create_page" => reqs[k].body = main_html
          /\ reqs[k].op = "update_page" =>
                CrossResolved(reqs[k].body.text, Resolved(cfg, loc, main_html.text))
    /\ ~(pc = "done" /\ status = "TypeError")

\* the requests that name the page of the run
PageReqs ==
    {k \in DOMAIN reqs :
       reqs[k].op \in {"get_attachment", "upload_attachment", "get_page_properties",
                       "update_page", "update_page_property", "delete_page"}}
Creates == {k \in DOMAIN reqs : reqs[k].op = "create_page"}

\* every request about the page names id, and every update its version + 1
Uses(id, version) ==
    \A k \in PageReqs :
       /\ reqs[k].id = id
       /\ reqs[k].op = "update_page" => reqs[k].version = version + 1

\* C3: a run whose lookup finds no page issues exactly one create request,
\* with the title, the converted body and the parent id, goes on with the
\* page the create returned, and every later attachment, property and update
\* request uses the id and version of that page; a run whose lookup finds the
\* page issues no create request and uses the id and version of that page.
CreateThenUse ==
    /\ Cardinality(Creates) <= 1
    /\ \A k \in Creates :
          /\ ~loc.page.found
          /\ reqs[k].title = loc.title
          /\ reqs[k].body = main_html
          /\ ~reqs[k].body.none
          /\ reqs[k].parent = loc.parent_page_id
          /\ \A j \in PageReqs : j > k
          /\ Uses(Server.created.id, Server.created.version)
    /\ loc.page.found => Creates = {} /\ Uses(Server.page.id, Server.page.version)
    /\ (Creates = {} /\ ~loc.page.found) => PageReqs = {}
    /\ (status = "completed" /\ ~loc.page.found) => Cardinality(Creates) = 1
    /\ ~(pc = "done" /\ status \in {"TypeError", "KeyError"}
          /\ reqs # <<>> /\ reqs[Len(reqs)].op = "create_page")

-----------------------------------------------------------------------------
(* Code-block conversion as a function of its input (C4, C5)               *)

MaxBlocks == 2

CodeLangs == {"", "py"}
CodeBodies ==
    {"x",
     "a]]&gt;b",
     "]]]",
     "if a &lt; b &amp;&amp; c: &quot;s&quot;\nline",
     "&lt;pre&gt;&lt;code&gt;x&lt;/code&gt;&lt;/pre&gt;"}

\* a fenced block as the renderer writes it
CodeBlockHtml(b) ==
    "<pre><code" \o (IF b.lang = "" THEN "" ELSE " class=\"" \o b.lang \o "\"") \o ">"
    \o b.body \o "</code></pre>"

RECURSIVE CodeDoc(_, _)
CodeDoc(blocks, k) ==
    IF k > Len(blocks) THEN "<p>end</p>"
    ELSE "<p>t</p>\n" \o CodeBlockHtml(blocks[k]) \o "\n" \o CodeDoc(blocks, k + 1)

InitCode ==
    /\ cfg \in {[DefaultCfg EXCEPT !.variant = v] : v \in Variants}
    /\ arg \in SeqsOf([lang : CodeLangs, body : CodeBodies], 0, MaxBlocks)
    /\ ret = NoRet
    /\ stage = "call"
    /\ IdleHdr
    /\ IdleDrv

CallConvertCodeBlock ==
    /\ stage = "call"
    /\ ret' = Returned(IF cfg.variant = "md2conf"
                       THEN md2conf_convert_code_block(CodeDoc(arg, 1))
                       ELSE convert_code_block(CodeDoc(arg, 1)))
    /\ stage' = "done"
    /\ UNCHANGED <<cfg, arg, hdrVars, drvVars>>

NextCode == CallConvertCodeBlock

SpecCode == InitCode /\ [][NextCode]_vars

\* the head of the macro a block of language L is claimed to become
ClaimedMacroHead(L) ==
    CodeMacroHead \o "<ac:parameter ac:name=\"language\">"
    \o (IF L = "" THEN "none" ELSE L) \o "</ac:parameter>" \o MacroPlainOpen

\* C4: convert_code_block is total: the output holds as many code macros as
\* the input holds code blocks, and for every language L (none when the class
\* attribute is absent) as many macros of language L as blocks of class L
CodeBlocksBecomeMacros ==
    stage = "done" =>
      /\ Count(ret.value, CodeMacroOpen) = Len(arg)
      /\ \A L \in CodeLangs :
            Count(ret.value, ClaimedMacroHead(L))
              = Cardinality({k \in 1..Len(arg) : arg[k].lang = L})

\* C5: in the output every "]]>" is a CDATA terminator the conversion wrote
\* itself: the end of the plain-text body, or the split before a reopened
\* CDATA section; no CDATA section ends inside a code body
CDataNeverEndsEarly ==
    stage = "done" =>
      \A i \in 1..Len(ret.value) :
        StartsAt(ret.value, i, "]]>") =>
          \/ StartsAt(ret.value, i + 3, "</ac:plain-text-body>")
          \/ StartsAt(ret.value, i + 3, "<![CDATA[")

-----------------------------------------------------------------------------
(* Info, note and warning conversion as a function of its input (C6-C8)    *)

\* the surface forms a prefix word w takes in front of the text, one for each
\* pattern of strip_type
PrefixForms(w) ==
    << w \o ": ",
       w \o " : ",
       "<strong>" \o w \o ": </strong>",
       "<em>" \o w \o " : </em>",
       "<strong>" \o w \o ":</strong> ",
       "<em>" \o w \o " :</em> ",
       "<strong>" \o w \o "</strong>: ",
       "<em>" \o w \o " </em>: " >>

QuoteWords == {"Note", "note", "NOTE", "Warning", "warning", "Tip"}
QuoteTexts == {"text here", "see Note: below", "mind the Warning : sign"}
MarkerChars == {"?", "!", "%"}
MarkerTexts == {"hello", "a ?~ b", "x!", "~!x", "x%~", "<em>hi</em> there", "~"}

\* form 0: the text carries no prefix
Prefixed(a) == (IF a.form = 0 THEN "" ELSE PrefixForms(a.word)[a.form]) \o a.rest

\* a blockquote as the renderer writes it
QuoteDoc(a) == "<p>before</p>\n<blockquote>\n<p>" \o Prefixed(a) \o "</p>\n</blockquote>\n<p>after</p>"

MarkerDoc(a) == "<p>before</p>\n<p>~" \o a.m \o a.rest \o a.m \o "~</p>\n<p>after</p>"

QuoteArgs ==
    [fn : {"convert_info_macros"}, kind : {"quote"}, m : {""},
     word : QuoteWords, form : DOMAIN PrefixForms(""), rest : QuoteTexts]
    \cup [fn : {"convert_info_macros"}, kind : {"quote"}, m : {""},
          word : {""}, form : {0}, rest : QuoteTexts \cup {"plain"}]

MarkerArgs ==
    [fn : {"convert_info_macros"}, kind : {"marker"}, m : MarkerChars,
     word : {""}, form : {0}, rest : MarkerTexts]

StripArgs ==
    [fn : {"strip_type"}, kind : {"tag"}, m : {""},
     word : {"Note", "Warning"}, form : DOMAIN PrefixForms(""), rest : QuoteTexts]

InitInfo ==
    /\ cfg \in {[DefaultCfg EXCEPT !.variant = v] : v \in Variants}
    /\ arg \in QuoteArgs \cup MarkerArgs \cup StripArgs
    /\ ret = NoRet
    /\ stage = "call"
    /\ IdleHdr
    /\ IdleDrv

CallConvertInfoMacros ==
    /\ stage = "call"
    /\ arg.fn = "convert_info_macros"
    /\ LET html == IF arg.kind = "quote" THEN QuoteDoc(arg) ELSE MarkerDoc(arg)
       IN  ret' = IF convert_info_macros_raises(html) THEN Raised
                  ELSE Returned(ConvertInfoMacros(cfg.variant, html))
    /\ stage' = "done"
    /\ UNCHANGED <<cfg, arg, hdrVars, drvVars>>

\* strip_type(tag, tagtype) on a paragraph that opens with the prefix tagtype
CallStripType ==
    /\ stage = "call"
    /\ arg.fn = "strip_type"
    /\ LET tag == "\n<p>" \o Prefixed(arg) \o "</p>\n"
       IN  ret' = IF strip_type_raises(tag, arg.word) THEN Raised
                  ELSE Returned(strip_type(tag, arg.word))
    /\ stage' = "done"
    /\ UNCHANGED <<cfg, arg, hdrVars, drvVars>>

NextInfo == CallConvertInfoMacros \/ CallStripType

SpecInfo == InitInfo /\ [][NextInfo]_vars

\* body is rest behind a lead that no longer holds the word: the prefix is
\* gone, the text is intact but for the case of letters, and the first
\* character is not a lower-case letter
PrefixGone(body, word, rest) ==
    LET n == Len(body) - Len(rest)
    IN  /\ n >= 0
        /\ Lower(From(body, n + 1)) = Lower(rest)
        /\ ~Contains(Lower(SubSeq(body, 1, n)), Lower(word))
        /\ ~IsLower(At(body, 1))

MacroOpenFor(name) ==
    CASE name = "note" -> note_tag
      [] name = "warning" -> warning_tag
      [] OTHER -> info_tag

\* out is the page with its blockquote replaced by the named macro around a
\* body that satisfies P
IsMacroPage(out, name, P(_)) ==
    LET open == "<p>before</p>\n" \o MacroOpenFor(name)
        close == close_tag \o "\n<p>after</p>"
    IN  /\ StartsAt(out, 1, open)
        /\ Len(out) >= Len(open) + Len(close)
        /\ From(out, Len(out) - Len(close) + 1) = close
        /\ P(SubSeq(out, Len(open) + 1, Len(out) - Len(close)))

\* C6: a blockquote whose first paragraph opens with Note in any letter case
\* becomes a note macro with the prefix removed and the first character
\* upper-cased, one that opens with Warning a warning macro likewise, and
\* every other blockquote an info macro around the unchanged content
BlockquoteClassified ==
    (stage = "done" /\ arg.fn = "convert_info_macros" /\ arg.kind = "quote") =>
      /\ ~ret.raised
      /\ LET gone(body) == PrefixGone(body, arg.word, arg.rest)
             same(body) == body = Prefixed(arg)
         IN  CASE Lower(arg.word) = "note" -> IsMacroPage(ret.value, "note", gone)
               [] Lower(arg.word) = "warning" -> IsMacroPage(ret.value, "warning", gone)
               [] OTHER -> IsMacroPage(ret.value, "info", same)

\* C7: strip_type removes the prefix in each of its eight surface forms and
\* leaves the rest of the text intact, later occurrences of the prefix word
\* included
StripTypeKeepsRest ==
    (stage = "done" /\ arg.fn = "strip_type") =>
      /\ ~ret.raised
      /\ StartsAt(ret.value, 1, "<p>")
      /\ PrefixGone(From(ret.value, 4), arg.word, arg.rest \o "</p>")

\* C8: the markers ~?C?~, ~!C!~ and ~%C%~ of a paragraph become the info,
\* note and warning macro around C, and C is preserved verbatim
MarkersPreserveContent ==
    (stage = "done" /\ arg.fn = "convert_info_macros" /\ arg.kind = "marker") =>
      /\ ~ret.raised
      /\ LET name == CASE arg.m = "?" -> "info" [] arg.m = "!" -> "note" [] OTHER -> "warning"
             same(body) == body = arg.rest
         IN  IsMacroPage(ret.value, name, same)

-----------------------------------------------------------------------------
(* Footnote conversion as a function of its input (C9)                     *)

MaxCites == 2

RefIds == {"1", "2"}
CiteIds == RefIds \cup {"3"}
\* "" is a definition that holds no anchor
RefHrefs == {"http://x", "http://y/a?b=1", ""}
RefForms == {"bare", "para"}
RefDefs == [id : RefIds, href : RefHrefs, form : RefForms]

\* the definitions of a page: at most one for each number
DefLists ==
    {ds \in SeqsOf(RefDefs, 0, Cardinality(RefIds)) :
       \A i, j \in 1..Len(ds) : i # j => ds[i].id # ds[j].id}

\* a page with footnotes as the renderer writes it: the citations in the
\* running text, the bare definitions as further lines of that paragraph and
\* the wrapped ones as paragraphs of their own
RefPage(a, cite(_), def(_)) ==
    LET bare(d) == IF d.form = "bare" THEN "\n" \o def(d) ELSE ""
        para(d) == IF d.form = "para" THEN "\n<p>" \o def(d) \o "</p>" ELSE ""
        word(c) == " text" \o cite(c)
    IN  "<h1>T</h1>\n<p>Some" \o Concat(Each(a.cites, word)) \o " and [^12] [1]."
        \o Concat(Each(a.defs, bare)) \o "</p>" \o Concat(Each(a.defs, para))
        \o "\n<p>end</p>"

Citation(c) == "[^" \o c \o "]"
Definition(d) ==
    "[^" \o d.id \o "]: "
    \o (IF d.href = "" THEN "plain words"
        ELSE "<a href=\"" \o d.href \o "\">" \o d.href \o "</a>")

RefInput(a) == RefPage(a, Citation, Definition)

InitRefs ==
    /\ cfg = DefaultCfg
    /\ arg \in [cites : SeqsOf(CiteIds, 0, MaxCites), defs : DefLists]
    /\ ret = NoRet
    /\ stage = "call"
    /\ IdleHdr
    /\ IdleDrv

CallProcessRefs ==
    /\ stage = "call"
    /\ ret' = IF process_refs_raises(RefInput(arg)) THEN Raised
               ELSE Returned(process_refs(RefInput(arg)))
    /\ stage' = "done"
    /\ UNCHANGED <<cfg, arg, hdrVars, drvVars>>

NextRefs == CallProcessRefs

SpecRefs == InitRefs /\ [][NextRefs]_vars

\* every definition of the page holds an anchor
AllAnchored(a) == \A k \in 1..Len(a.defs) : a.defs[k].href # ""

\* the page the claim describes: each citation of a defined number is the
\* superscript link to the href of that number's definition, and the text of
\* every definition is gone
RefExpected(a) ==
    LET linked(c) ==
          IF \E k \in 1..Len(a.defs) : a.defs[k].id = c
          THEN LET k == CHOOSE k \in 1..Len(a.defs) : a.defs[k].id = c
               IN  "<a id=\"test\" href=\"" \o a.defs[k].href \o "\"><sup>" \o c \o "</sup></a>"
          ELSE Citation(c)
        gone(d) == ""
    IN  RefPage(a, linked, gone)

-----------------------------------------------------------------------------
(* The Header Map loop of add_local_refs, one heading at a time (C10)      *)

MaxHeaders == 3

HeadingTexts == {"Intro", "<em>intro</em>", "Intro_1", "A &amp; B"}

\* --version takes any integer
VersionArgs == Versions \cup {3}

\* a page with the given headings as the renderer writes it
HeadingLine(text, level) ==
    "<h" \o IntToStr(level) \o ">" \o text \o "</h" \o IntToStr(level) \o ">\n<p>text</p>\n"
HeadingPage(texts) ==
    "<p>top</p>\n"
    \o Concat([k \in 1..Len(texts) |-> HeadingLine(texts[k], IF k = 1 THEN 1 ELSE 2)])

InitHeaders ==
    /\ cfg \in {[DefaultCfg EXCEPT !.VERSION = v, !.MARKDOWN_SOURCE = m] :
                  v \in VersionArgs, m \in DOMAIN ref_prefixes}
    /\ arg \in {HeadingPage(texts) : texts \in SeqsOf(HeadingTexts, 0, MaxHeaders)}
    /\ ret = NoRet
    /\ stage = "call"
    /\ IdleHdr
    /\ IdleDrv

\* headers = re.findall(...); "if headers:" skips the loop for a page without
FindHeaders ==
    /\ stage = "call"
    /\ headers' = Headers(arg)
    /\ stage' = IF headers' = <<>> THEN "done" ELSE "loop"
    /\ UNCHANGED <<cfg, arg, ret, hidx, hstate, drvVars>>

\* one iteration of "for header in headers"
HeaderLoopStep ==
    /\ stage = "loop"
    /\ hidx < Len(headers)
    /\ cfg.VERSION \in Versions
    /\ hstate' = HeaderStep(hstate, headers[hidx + 1], cfg.MARKDOWN_SOURCE, cfg.VERSION)
    /\ hidx' = hidx + 1
    /\ stage' = IF hidx' = Len(headers) THEN "done" ELSE "loop"
    /\ UNCHANGED <<cfg, arg, ret, headers, drvVars>>

\* with any other version the first iteration reads the unbound local value
HeaderLoopRaises ==
    /\ stage = "loop"
    /\ hidx < Len(headers)
    /\ cfg.VERSION \notin Versions
    /\ ret' = Raised
    /\ stage' = "raised"
    /\ UNCHANGED <<cfg, arg, headers, hidx, hstate, drvVars>>

NextHeaders == FindHeaders \/ HeaderLoopStep \/ HeaderLoopRaises

SpecHeaders == InitHeaders /\ [][NextHeaders]_vars

\* how many of the first n keys equal key
Same(keys, n, key) == Cardinality({i \in 1..n : keys[i] = key})

\* the suffix of the j-th heading: its rank among the headings of its key
Suffixed(text, sep, rank) == IF rank = 0 THEN text ELSE text \o sep \o IntToStr(rank)

\* the map and the counters hold what the claim says of headings whose keys
\* and values are the given sequences
MapHolds(st, keys, values) ==
    /\ \A j \in DOMAIN keys :
          LET rank == Same(keys, j - 1, keys[j])
          IN  /\ Suffixed(keys[j], "_", rank) \in DOMAIN st.map
              /\ st.map[Suffixed(keys[j], "_", rank)] = Suffixed(values[j], ".", rank)
    /\ Cardinality(DOMAIN st.map) = Len(keys)
    /\ DOMAIN st.count = {keys[j] : j \in DOMAIN keys}
    /\ \A key \in DOMAIN st.count : st.count[key] = Same(keys, Len(keys), key)

\* the keys and values of the headings processed so far
KeysSoFar == [j \in 1..hidx |-> HeaderKey(headers[j], cfg.MARKDOWN_SOURCE)]
ValuesSoFar == [j \in 1..hidx |-> HeaderValue(headers[j], cfg.VERSION)]

\* C10: after any number of iterations the map holds one entry for each
\* heading processed: the first heading of a key under the key itself with
\* its plain value, the k-th further one under key_k with value.k; the
\* counter of a key is the number of headings seen with it (1 after the
\* first, one more for each duplicate); so no two headings share a key
HeaderMapWellFormed == MapHolds(hstate, KeysSoFar, ValuesSoFar)

\* three headings with one key have been mapped: the third took key_2
HeaderMapWitness ==
    /\ stage = "done"
    /\ hidx = 3
    /\ headers[1] # headers[2]
    /\ Cardinality(DOMAIN hstate.count) = 1
    /\ \E key \in DOMAIN hstate.count :
          /\ hstate.count[key] = 3
          /\ (key \o "_2") \in DOMAIN hstate.map

-----------------------------------------------------------------------------
(* add_local_refs on pages of headings and in-page links (C11, C12)        *)

MaxLinks == 2

LinkHeadings == {"Intro", "Set up"}
LinkSlugs == {"intro", "intro_1", "nowhere"}
LinkTexts == {"one", "two"}
LinkItems == [slug : LinkSlugs, text : LinkTexts]

\* an in-page link as the renderer writes it, and the page of the argument
LinkTag(l, source) ==
    "<a href=\"" \o ref_prefixes[source] \o l.slug \o "\">" \o l.text \o "</a>"
LinkLine(l) == "<p>" \o LinkTag(l, cfg.MARKDOWN_SOURCE) \o "</p>\n"
LinkPage(a) == HeadingPage(a.headings) \o Concat(Each(a.links, LinkLine))

\* sys.exit(1) inside the call
Exited == [raised |-> TRUE, value |-> "SystemExit"]

InitLinks ==
    /\ cfg \in {[DefaultCfg EXCEPT !.variant = i, !.VERSION = v, !.MARKDOWN_SOURCE = m] :
                  i \in {"package", "md2conf"}, v \in Versions, m \in DOMAIN ref_prefixes}
    /\ arg \in [headings : SeqsOf(LinkHeadings, 0, 2), links : SeqsOf(LinkItems, 0, MaxLinks)]
    /\ ret = NoRet
    /\ stage = "call"
    /\ IdleHdr
    /\ IdleDrv

\* add_local_refs(page_id, title, html) of the page Guide with id 7
CallAddLocalRefs ==
    /\ stage = "call"
    /\ ret' = IF /\ cfg.variant = "md2conf"
                 /\ add_local_refs_exits(LinkPage(arg), cfg.MARKDOWN_SOURCE, cfg.VERSION)
              THEN Exited
              ELSE Returned(add_local_refs(Server.page.id,
                                           IF cfg.variant = "md2conf" THEN SPACE_KEY
                                           ELSE IntToStr(Server.space),
                                           "Guide", LinkPage(arg), cfg.MARKDOWN_SOURCE,
                                           cfg.VERSION))
    /\ stage' = "done"
    /\ UNCHANGED <<cfg, arg, hdrVars, drvVars>>

NextLinks == CallAddLocalRefs

SpecLinks == InitLinks /\ [][NextLinks]_vars

\* what a link to the anchor value becomes under the editor version
LinkTo(value, l) ==
    IF cfg.VERSION = 1 THEN AnchorLink(value, l.text)
    ELSE TitledLink(BaseUri(IF cfg.variant = "md2conf" THEN SPACE_KEY
                            ELSE IntToStr(Server.space), Server.page.id, "Guide")
                    \o "#" \o value, l.text)

\* two headings of one text, then two links with the href of that heading
TwinLinks(a) ==
    /\ a.headings = <<"Intro", "Intro">>
    /\ Len(a.links) = 2
    /\ a.links[1].slug = "intro"
    /\ a.links[2].slug = "intro"
    /\ a.links[1].text # a.links[2].text

\* C11: on a page with two headings of the same text and two in-page links
\* that carry the href of that heading, the first link is rewritten to the
\* unsuffixed anchor and the second to the anchor with the suffix ".1"
TwinLinksFollowHeadings ==
    (stage = "done" /\ TwinLinks(arg)) =>
      /\ ~ret.raised
      /\ Contains(ret.value, LinkTo(HeaderValue("Intro", cfg.VERSION), arg.links[1]))
      /\ Contains(ret.value,
                  LinkTo(HeaderValue("Intro", cfg.VERSION) \o ".1", arg.links[2]))

\* the hrefs of the page's in-page links and the keys of its Header Map
LinkRefs(a) == {ref_prefixes[cfg.MARKDOWN_SOURCE] \o a.links[k].slug : k \in DOMAIN a.links}
MapKeys(a) == DOMAIN HeaderMap(a.headings, cfg.MARKDOWN_SOURCE, cfg.VERSION).map

\* C12: when the page holds an in-page link whose href is no key of the
\* Header Map, also on a page without headings, add_local_refs ends the
\* process and returns no page body in which the link is left
DeadLinkAborts ==
    (stage = "done" /\ ~(LinkRefs(arg) \subseteq MapKeys(arg))) => ret = Exited

-----------------------------------------------------------------------------
(* add_pages_refs of md2conf.py on pages of links to markdown files (C13)  *)

PageHrefs == {"docs/other.md", "lib/api.md"}
PageLinkTexts == {"other", "more"}
PageLinkItems == [href : PageHrefs, text : PageLinkTexts]

\* how the file a link names and the lookup of its title can go: open()
\* raises IOError; get_page returns the page; it returns False; it leaves
\* through sys.exit(1) on an error status; the session raises RetryError when
\* the retried answers (404, 5xx) go on
PageWorlds == {"unreadable", "found", "none", "error", "retries"}

PageLinkLine(l) == "<p><a href=\"" \o l.href \o "\">" \o l.text \o "</a></p>\n"
PageLinkPage(a) == "<p>top</p>\n" \o Concat(Each(a.links, PageLinkLine))

\* the loop "for link in links" from the k-th link on: "except IOError" takes
\* the unreadable file and the RetryError alike and the loop goes on
RECURSIVE ResolvePageLinks(_, _, _, _, _)
ResolvePageLink(html, links, k, m, pages_map, world) ==
    IF MatchingKeys(pages_map, Group(links[k], m, 3, 4)) = {}
    THEN ResolvePageLinks(html, links, k + 1, pages_map, world)
    ELSE CASE world = "found" ->
                ResolvePageLinks(RewritePageLink(html, links[k], m, Server.target.link),
                                 links, k + 1, pages_map, world)
           [] world \in {"none", "error"} -> Exited
           [] OTHER -> ResolvePageLinks(html, links, k + 1, pages_map, world)
ResolvePageLinks(html, links, k, pages_map, world) ==
    IF k > Len(links) THEN Returned(html)
    ELSE ResolvePageLink(html, links, k, Search(links[k], PageLinkParts, 1, FALSE),
                         pages_map, world)

InitPages ==
    /\ cfg \in {[ScriptCfg("md2conf") EXCEPT !.PAGES_MAP = m] : m \in PagesMapArgs}
    /\ arg \in [links : SeqsOf(PageLinkItems, 0, MaxLinks), world : PageWorlds]
    /\ ret = NoRet
    /\ stage = "call"
    /\ IdleHdr
    /\ IdleDrv

\* add_pages_refs(html)
CallAddPagesRefs ==
    /\ stage = "call"
    /\ ret' = IF cfg.PAGES_MAP = <<>> THEN Returned(PageLinkPage(arg))
              ELSE ResolvePageLinks(PageLinkPage(arg), PageLinks(PageLinkPage(arg)), 1,
                                    cfg.PAGES_MAP, arg.world)
    /\ stage' = "done"
    /\ UNCHANGED <<cfg, arg, hdrVars, drvVars>>

NextPages == CallAddPagesRefs

SpecPages == InitPages /\ [][NextPages]_vars

\* the links of the page that start with a configured base URL
Mapped(a) ==
    {k \in DOMAIN a.links : MatchingKeys(cfg.PAGES_MAP, a.links[k].href) # {}}

\* C13: without a mapping add_pages_refs returns the page unchanged; with
\* one, when a link under a configured base URL names a file that is there
\* and no page of its title is found the process ends, otherwise every such
\* link is rewritten to the link of the page found
PageLinksResolved ==
    stage = "done" =>
      /\ cfg.PAGES_MAP = <<>> => ret = Returned(PageLinkPage(arg))
      /\ (cfg.PAGES_MAP # <<>> /\ Mapped(arg) # {}) =>
           IF arg.world \in {"none", "error", "retries"} THEN ret = Exited
           ELSE /\ ~ret.raised
                /\ \A k \in Mapped(arg) :
                      /\ ~Contains(ret.value, PageLinkLine(arg.links[k]))
                      /\ Contains(ret.value,
                                  TitledLink(Server.target.link, arg.links[k].text))

-----------------------------------------------------------------------------
(* slug on heading texts (C14)                                             *)

MaxPieces == 3

\* what a heading text is made of: letters of both cases, digits, spaces,
\* punctuation, tags, entities and their fragments; "@" stands for a
\* character outside ASCII
SlugPieces == {"A b", "Z", "9", " ", "-", "_", "<em>", "&amp;", "&", ";", "<", ">", "@"}

InitSlug ==
    /\ cfg = DefaultCfg
    /\ arg \in [string : {Concat(p) : p \in SeqsOf(SlugPieces, 0, MaxPieces)},
                lowercase : BOOLEAN]
    /\ ret = NoRet
    /\ stage = "call"
    /\ IdleHdr
    /\ IdleDrv

\* slug(string, lowercase)
CallSlug ==
    /\ stage = "call"
    /\ ret' = Returned(slug(arg.string, arg.lowercase))
    /\ stage' = "done"
    /\ UNCHANGED <<cfg, arg, hdrVars, drvVars>>

NextSlug == CallSlug

SpecSlug == InitSlug /\ [][NextSlug]_vars

\* s is made of the characters a-z, 0-9 and "-" only
IsSlugText(s) ==
    \A i \in 1..Len(s) : IsLower(At(s, i)) \/ IsDigit(At(s, i)) \/ At(s, i) = "-"

\* C14: for every heading text H, slug(H, True) is a fixed point of slug,
\* is in lower case, holds no HTML tag, no HTML entity and no space, and
\* is made of the characters a-z, 0-9 and "-" only
SlugIsClean ==
    (stage = "done" /\ arg.lowercase) =>
      /\ slug(ret.value, TRUE) = ret.value
      /\ Lower(ret.value) = ret.value
      /\ Search(ret.value, HtmlTagPat, 1, FALSE) = <<>>
      /\ Search(ret.value, HtmlEntityPat, 1, FALSE) = <<>>
      /\ ~Contains(ret.value, " ")
      /\ IsSlugText(ret.value)

\* a heading with a tag, capitals, a space and an entity has been slugged
SlugIsCleanWitness ==
    /\ stage = "done"
    /\ arg = [string |-> "<em>A b&amp;", lowercase |-> TRUE]
    /\ ret = Returned("a-b")

-----------------------------------------------------------------------------
(* ConfluenceApiClient: any sequence of calls on one instance, and the     *)
(* page of Confluence they work on (C15-C20)                               *)

MaxVersion == 5

\* get_session(retry=True): the adapter sends a request again after an answer
\* of the status_forcelist, retry_max_requests times at most
retry_max_requests == 5
retry_status_forcelist == {404, 500, 501, 502, 503, 504}

\* the methods the adapter retries on a status (the library's default)
RetriedMethods == {"GET", "PUT", "DELETE"}

\* the statuses Confluence answers with when it does not answer in earnest
Refusals == {401, 404, 500}
Statuses(earnest) == {earnest} \cup Refusals

Retried(retry, method, code) ==
    retry /\ method \in RetriedMethods /\ code \in retry_status_forcelist

\* how a request can go through a session: answers holds the status of every
\* attempt. Without the adapter there is one attempt. With it a retried
\* status is followed by another attempt, and when the attempts run out the
\* library raises RetryError or hands the last answer on.
Transports(retry, method, codes) ==
    LET again == {c \in codes : Retried(retry, method, c)}
        final == codes \ again
    IN  {[answers |-> <<c>>, raised |-> FALSE] : c \in final}
        \cup {[answers |-> <<a, c>>, raised |-> FALSE] : a \in again, c \in final}
        \cup {[answers |-> [k \in 1..(retry_max_requests + 1) |-> a], raised |-> r] :
                a \in again, r \in BOOLEAN}

Last(t) == t.answers[Len(t.answers)]

\* a request of the client and the status it was answered with
Sent(op, method, retry, id, version, name, att, code) ==
    [op |-> op, method |-> method, retry |-> retry, id |-> id, version |-> version,
     name |-> name, att |-> att, status |-> code]
Attempts(op, method, retry, id, version, name, att, t) ==
    [k \in 1..Len(t.answers) |->
       Sent(op, method, retry, id, version, name, att, t.answers[k])]

\* check_errors_and_get_json: the data, the "Not Found" dictionary, or
\* sys.exit(1)
Exits(code) == code \notin {200, 404}

\* NoLookup: "if self.space_id > -1" never holds
NeverRemembered(id) == FALSE

\* get_space_id: "if self.space_id > -1: return self.space_id"
Remembered(id) == id > -1

\* what the lookup of the space is answered: a status and the ids of the
\* results
SpaceAnswers ==
    {[status |-> c, ids |-> <<>>] : c \in Statuses(200)}
    \cup {[status |-> 200, ids |-> <<i>>] : i \in {Server.space, Server.space + 1}}

\* the answers that matter to a client that holds id: with an id in hand no
\* lookup is due, and Confluence would answer one with the id of the space
AnswersFor(id) ==
    IF id > -1 THEN {[status |-> 200, ids |-> <<id>>]} ELSE SpaceAnswers

\* get_space_id(): the requests it sends, the id it returns and leaves in
\* self.space_id, and whether it ends the process
get_space_id(id, sp) ==
    IF Remembered(id) THEN [reqs |-> <<>>, id |-> id, exits |-> FALSE]
    ELSE [reqs |-> <<Sent("get_space_id", "GET", FALSE, 0, 0, SPACE_KEY, 0, sp.status)>>,
          id |-> IF sp.status = 200 /\ sp.ids # <<>> THEN sp.ids[1] ELSE id,
          exits |-> Exits(sp.status)]

\* update_page_json under the title of another page
RetitledJson(page_id, title, body, version, parent_id) ==
    [id |-> page_id, title |-> "Renamed", body |-> body, version |-> NextVersion(version),
     parent |-> parent_id]

\* page_json of update_page
update_page_json(page_id, title, body, version, parent_id) ==
    [id |-> page_id, title |-> title, body |-> body, version |-> NextVersion(version),
     parent |-> parent_id]

\* "if attachment:" of upload_attachment
AttachmentFound(found) == found

ClientTitles == {"Guide", "Renamed"}
ClientBodies == {"<p>a</p>", "<p>b</p>"}
ClientFiles == {"img/logo.png", "img/http-flow.png", "http://host/logo.png", "img/gone.png"}
\* os.path.isfile(file)
OnDisk == {"img/logo.png", "img/http-flow.png"}

NoCall == [op |-> "none"]
RaisedAs(st) == [raised |-> TRUE, value |-> st]

\* the page Guide of the space, how many updates in a row (two at most are
\* counted) have left its title and body as they were, and how many
\* attachments of each name it holds
InitClient ==
    /\ cfg \in {[ScriptCfg(v) EXCEPT !.VERSION = 2] : v \in {"package", "md2conf"}}
    /\ arg = NoCall
    /\ ret = NoRet
    /\ stage = "idle"
    /\ IdleHdr
    /\ pc = "idle" /\ main_html = None /\ log = <<>> /\ loc = NoLocals
    /\ space_id = -1
    /\ reqs = <<>>
    /\ status = "running"
    /\ srv = [exists |-> TRUE, id |-> Server.page.id, version |-> Server.page.version,
              title |-> "Guide", body |-> "<p>a</p>", repeats |-> 0,
              atts |-> [n \in {Basename(f) : f \in ClientFiles} |-> 0]]

\* a call of the client: what it was, the requests it sent, what it left in
\* self.space_id, what it returned or how it ended the process, and the page
\* after it
Called(call, rq, id, r, server) ==
    /\ arg' = call
    /\ reqs' = rq
    /\ space_id' = id
    /\ ret' = r
    /\ status' = IF r.raised THEN r.value ELSE "running"
    /\ srv' = server
    /\ UNCHANGED <<cfg, stage, hdrVars, pc, main_html, log, loc>>

IsClient == status = "running" /\ cfg.variant = "package"

\* client.get_space_id()
ClientGetSpaceId ==
    /\ IsClient
    /\ \E sp \in AnswersFor(space_id) :
         LET look == get_space_id(space_id, sp)
         IN  Called([op |-> "get_space_id"], look.reqs, look.id,
                    IF look.exits THEN Exited ELSE Returned(IntToStr(look.id)), srv)

\* what get_page makes of the last answer: the page of that title, or False
PageOf(title, code) ==
    IF code = 200 /\ srv.exists /\ srv.title = title THEN Returned("PageInfo")
    ELSE Returned("False")

\* client.get_page(title); get_page(title) of md2conf.py asks for no space id
\* and leaves through sys.exit(1) on every error status
ClientGetPage ==
    /\ status = "running"
    /\ \E title \in ClientTitles, sp \in AnswersFor(space_id),
          t \in Transports(TRUE, "GET", Statuses(200)) :
         LET look == IF cfg.variant = "package" THEN get_space_id(space_id, sp)
                     ELSE [reqs |-> <<>>, id |-> space_id, exits |-> FALSE]
             call == [op |-> "get_page", title |-> title]
             rq == look.reqs \o Attempts("get_page", "GET", TRUE, 0, 0, title, 0, t)
         IN  IF look.exits THEN Called(call, look.reqs, look.id, Exited, srv)
             ELSE IF t.raised THEN Called(call, rq, look.id, RaisedAs("RetryError"), srv)
             ELSE IF Exits(Last(t)) \/ (cfg.variant = "md2conf" /\ Last(t) # 200)
             THEN Called(call, rq, look.id, Exited, srv)
             ELSE Called(call, rq, look.id, PageOf(title, Last(t)), srv)

\* client.create_page(title, body, parent_id): Confluence makes the page when
\* there is none of the title
ClientCreatePage ==
    /\ IsClient
    /\ \E body \in ClientBodies, sp \in AnswersFor(space_id),
          t \in Transports(FALSE, "POST", Statuses(IF srv.exists THEN 400 ELSE 200)) :
         LET look == get_space_id(space_id, sp)
             call == [op |-> "create_page", title |-> "Guide", body |-> body]
             rq == look.reqs \o Attempts("create_page", "POST", FALSE, 0, 0, "Guide", 0, t)
         IN  IF look.exits THEN Called(call, look.reqs, look.id, Exited, srv)
             ELSE IF Exits(Last(t)) THEN Called(call, rq, look.id, Exited, srv)
             ELSE IF Last(t) = 200
             THEN Called(call, rq, look.id, Returned("PageInfo"),
                         [srv EXCEPT !.exists = TRUE, !.version = 1, !.title = "Guide",
                                     !.body = body, !.repeats = 0,
                                     !.atts = [n \in DOMAIN srv.atts |-> 0]])
             ELSE Called(call, rq, look.id, Returned("dict"), srv)

\* Confluence takes the version that follows the one it holds
Accepts(json) ==
    IF ~srv.exists \/ json.id # srv.id THEN 404
    ELSE IF json.version = srv.version + 1 THEN 200 ELSE 409

\* client.update_page(page_id, title, body, version, parent_id)
UpdateWith(call, json, look, t) ==
    LET rq == look.reqs \o Attempts("update_page", "PUT", FALSE, json.id, json.version,
                                    json.title, 0, t)
    IN  IF look.exits THEN Called(call, look.reqs, look.id, Exited, srv)
        ELSE IF Exits(Last(t)) THEN Called(call, rq, look.id, Exited, srv)
        ELSE IF Last(t) = 200
        THEN Called(call, rq, look.id, Returned("True"),
                    [srv EXCEPT !.version = json.version, !.title = json.title,
                                !.body = json.body,
                                !.repeats = IF json.title = srv.title /\ json.body = srv.body
                                            THEN Min({2, @ + 1}) ELSE 0])
        ELSE Called(call, rq, look.id, Returned("False"), srv)
UpdateAs(call, json, sp) ==
    \E t \in Transports(FALSE, "PUT", Statuses(Accepts(json))) :
       UpdateWith(call, json, get_space_id(space_id, sp), t)
ClientUpdatePage ==
    /\ IsClient
    /\ srv.version < MaxVersion
    /\ \E title \in ClientTitles, body \in ClientBodies,
          version \in {srv.version - 1, srv.version}, sp \in AnswersFor(space_id) :
         UpdateAs([op |-> "update_page", id |-> srv.id, title |-> title, body |-> body,
                   version |-> version],
                  update_page_json(srv.id, title, body, version, 0), sp)

\* client.delete_page(page_id): raise_for_status() on every error status
ClientDeletePage ==
    /\ IsClient
    /\ \E t \in Transports(FALSE, "DELETE", Statuses(IF srv.exists THEN 204 ELSE 404)) :
         LET call == [op |-> "delete_page", id |-> srv.id]
             rq == Attempts("delete_page", "DELETE", FALSE, srv.id, 0, "", 0, t)
         IN  IF Last(t) = 204
             THEN Called(call, rq, space_id, Returned("None"), [srv EXCEPT !.exists = FALSE])
             ELSE Called(call, rq, space_id, RaisedAs("HTTPError"), srv)

\* client.get_page_properties(page_id)
ClientGetPageProperties ==
    /\ IsClient
    /\ \E t \in Transports(TRUE, "GET", Statuses(IF srv.exists THEN 200 ELSE 404)) :
         LET call == [op |-> "get_page_properties", id |-> srv.id]
             rq == Attempts("get_page_properties", "GET", TRUE, srv.id, 0, "", 0, t)
         IN  IF t.raised THEN Called(call, rq, space_id, RaisedAs("RetryError"), srv)
             ELSE IF Exits(Last(t)) THEN Called(call, rq, space_id, Exited, srv)
             ELSE Called(call, rq, space_id,
                         Returned(IF Last(t) = 200 THEN "results" ELSE "[]"), srv)

\* client.update_page_property(page_id, page_property): a property with an
\* id is PUT, one without is POSTed, both through get_session(retry=True)
ClientUpdatePageProperty ==
    /\ IsClient
    /\ \E p \in {PropertiesFor(given, e)[1] :
                   given \in PropertyArgs \ {<<>>}, e \in PageProps} :
         \E t \in Transports(TRUE, IF p.id # 0 THEN "PUT" ELSE "POST",
                             Statuses(IF srv.exists THEN 200 ELSE 404)) :
           LET call == [op |-> "update_page_property", id |-> srv.id, key |-> p.key]
               rq == Attempts("update_page_property", IF p.id # 0 THEN "PUT" ELSE "POST",
                              TRUE, srv.id, p.version, p.key, p.id, t)
           IN  IF t.raised THEN Called(call, rq, space_id, RaisedAs("RetryError"), srv)
               ELSE IF Exits(Last(t)) THEN Called(call, rq, space_id, Exited, srv)
               ELSE Called(call, rq, space_id,
                           Returned(IF Last(t) = 200 THEN "True" ELSE "False"), srv)

\* the id Confluence gives the attachment of a name
AttachmentId(name) == Server.attachment

\* upload_attachment once the file is found on disk: get_attachment, then the
\* POST to the attachment found or to the page
UploadFile(call, name, found, g, t) ==
    LET get == Attempts("get_attachment", "GET", FALSE, srv.id, 0, name, 0, g)
        att == IF AttachmentFound(found) THEN AttachmentId(name) ELSE 0
        post == Attempts("upload_attachment", "POST", FALSE, srv.id, 0, name, att, t)
    IN  IF Last(g) # 200 THEN Called(call, get, space_id, RaisedAs("HTTPError"), srv)
        ELSE IF Last(t) # 200
        THEN Called(call, get \o post, space_id, RaisedAs("HTTPError"), srv)
        ELSE Called(call, get \o post, space_id, Returned("True"),
                    IF att # 0 THEN srv
                    ELSE [srv EXCEPT !.atts[name] = @ + 1])

\* client.upload_attachment(page_id, file, comment)
ClientUploadAttachment ==
    /\ IsClient
    /\ \E file \in ClientFiles :
         LET call == [op |-> "upload_attachment", id |-> srv.id, file |-> file]
         IN  IF IsRemote(file) \/ file \notin OnDisk
             THEN Called(call, <<>>, space_id, Returned("False"), srv)
             ELSE \E g, t \in Transports(FALSE, "GET",
                                         Statuses(IF srv.exists THEN 200 ELSE 404)) :
                    UploadFile(call, Basename(file), srv.atts[Basename(file)] > 0, g, t)

NextClient ==
    \/ ClientGetSpaceId
    \/ ClientGetPage
    \/ ClientCreatePage
    \/ ClientUpdatePage
    \/ ClientDeletePage
    \/ ClientGetPageProperties
    \/ ClientUpdatePageProperty
    \/ ClientUploadAttachment

SpecClient == InitClient /\ [][NextClient]_vars

\* C15: once a lookup has left an id in self.space_id, no call of the
\* client sends another lookup of the space or changes the id, and
\* get_space_id returns that id
SpaceIdMemoized ==
    [][space_id > -1 =>
         /\ space_id' = space_id
         /\ \A k \in DOMAIN reqs' : reqs'[k].op # "get_space_id"
         /\ arg'.op = "get_space_id" => ret' = Returned(IntToStr(space_id))]_vars

\* get_space_id has been called with the id in hand and has sent nothing
SpaceIdMemoizedWitness ==
    /\ space_id = Server.space
    /\ arg.op = "get_space_id"
    /\ reqs = <<>>
    /\ ret = Returned(IntToStr(Server.space))

\* get_page has had its last answer: 404, or 200 without a page of the title
NotFoundAnswer ==
    /\ arg.op = "get_page"
    /\ reqs # <<>>
    /\ reqs[Len(reqs)].op = "get_page"
    /\ \/ reqs[Len(reqs)].status = 404
       \/ reqs[Len(reqs)].status = 200 /\ ~(srv.exists /\ srv.title = arg.title)

\* C16: a lookup of a page by its title that is answered 404 or with an
\* empty result list returns False and the process goes on
PageNotFoundGoesOn ==
    NotFoundAnswer => ret = Returned("False") /\ status = "running"

\* C18: an update of the page with the title and body it has and the
\* version it is at, answered by Confluence in earnest, returns True and
\* leaves the id, the title and the body of the page as they were; the
\* version goes up by one. So it is with the second such update in a row.
UpdateKeepsIdentity ==
    [][(/\ arg'.op = "update_page"
        /\ srv.exists
        /\ arg'.id = srv.id /\ arg'.title = srv.title /\ arg'.body = srv.body
        /\ arg'.version = srv.version
        /\ reqs' # <<>>
        /\ reqs'[Len(reqs')].op = "update_page"
        /\ reqs'[Len(reqs')].status \in {200, 409})
       => /\ ret' = Returned("True")
          /\ srv'.exists
          /\ srv'.id = srv.id /\ srv'.title = srv.title /\ srv'.body = srv.body
          /\ srv'.version = srv.version + 1]_vars

\* two updates in a row have left the title and the body as they were
UpdateKeepsIdentityWitness ==
    /\ arg.op = "update_page"
    /\ ret = Returned("True")
    /\ srv.repeats = 2
    /\ srv.version = Server.page.version + 2
    /\ srv.id = Server.page.id

ReadOps == {"get_page", "get_page_properties"}
WriteOps ==
    {"create_page", "update_page", "update_page_property", "upload_attachment",
     "delete_page"}

\* C19: the requests of a call that go through a session with the retry
\* adapter are lookups of a page or of its properties; a request that
\* writes goes through a session without it and is sent once
WritesNotRetried ==
    \A k \in DOMAIN reqs :
       /\ reqs[k].retry => reqs[k].op \in ReadOps
       /\ reqs[k].op \in WriteOps =>
            /\ ~reqs[k].retry
            /\ Cardinality({j \in DOMAIN reqs : reqs[j].op = reqs[k].op}) = 1

\* an http URL
IsUrl(file) == StartsAt(file, 1, "http://") \/ StartsAt(file, 1, "https://")

\* C20: upload_attachment of a file on disk first asks for the attachment
\* of its name, then posts to the attachment found or else to the page, and
\* the page never holds two attachments of a name; for an http URL or a
\* file that is not on disk it sends nothing and returns False
UploadCreatesOrReplaces ==
    [][arg'.op = "upload_attachment" =>
         IF IsUrl(arg'.file) \/ arg'.file \notin OnDisk
         THEN reqs' = <<>> /\ ret' = Returned("False")
         ELSE /\ reqs' # <<>>
              /\ reqs'[1].op = "get_attachment"
              /\ reqs'[1].name = Basename(arg'.file)
              /\ Len(reqs') > 1 =>
                   /\ reqs'[2].op = "upload_attachment"
                   /\ reqs'[2].att = IF srv.atts[Basename(arg'.file)] > 0
                                     THEN AttachmentId(Basename(arg'.file)) ELSE 0
              /\ \A n \in DOMAIN srv'.atts : srv'.atts[n] <= 1]_vars

-----------------------------------------------------------------------------
(* The version of an update in a publishing run (C17)                      *)

\* the page was created in this run before the k-th request
CreatedBefore(k) == \E j \in 1..(k - 1) : reqs[j].op = "create_page"

\* the title of the page was looked up before the k-th request
LookedUpBefore(k) ==
    \E j \in 1..(k - 1) : reqs[j].op = "get_page" /\ reqs[j].title = loc.title

\* C17: every update request of a run carries the version the run got from
\* its lookup of the page, or from the create when it made the page, plus one
UpdateVersionFollows ==
    \A k \in DOMAIN reqs :
       reqs[k].op = "update_page" =>
         /\ LookedUpBefore(k)
         /\ IF CreatedBefore(k)
            THEN reqs[k].id = Server.created.id
                 /\ reqs[k].version = Server.created.version + 1
            ELSE loc.page.found
                 /\ reqs[k].id = Server.page.id
                 /\ reqs[k].version = loc.page.version + 1

\* a run has updated the page it found, another the page it made
UpdateVersionFollowsWitness ==
    /\ status = "completed"
    /\ \E k \in DOMAIN reqs :
          /\ reqs[k].op = "update_page"
          /\ reqs[k].version = Server.created.version + 1
          /\ CreatedBefore(k)

-----------------------------------------------------------------------------
(* The end of a run (C21-C25, C28), checked on the drivers                 *)

\* the lookups whose 404 the code reads as "there is none"
AbsentOps == {"get_space_id", "get_page", "get_page_properties", "get_attachment"}

\* a request answered with an error status that is no "there is none"
Refused(r) ==
    /\ r.answer \notin 200..299
    /\ ~(r.answer = 404 /\ r.op \in AbsentOps)

\* the process has ended, with an exit code that is not 0: sys.exit(1) or an
\* exception nothing catches
EndedInError == pc = "done" /\ status \notin {"completed", "exit 0", "returned"}

\* C21: a request answered with a non-2xx status that is no recognized
\* 404-as-absent case is the last request of the run, and the run has ended
\* with a non-zero exit.
ErrorsAreFatal ==
    \A k \in DOMAIN reqs : Refused(reqs[k]) => (k = Len(reqs) /\ EndedInError)

-----------------------------------------------------------------------------
(* The module-level configuration, then the first request of main (C22)    *)

\* what the environment and the command line can hold; md2conf.py alone
\* takes a personal access token
Settings ==
    {c \in [variant : {"package", "md2conf"},
            USERNAME : {None, Str("user")},
            API_KEY : {None, Str("key")},
            PA_TOKEN : {None, Str("token")},
            ORGNAME : {None, Str("org"), Str("wiki.example.com")},
            exists : BOOLEAN,
            NOSSL : BOOLEAN,
            SIMULATE : BOOLEAN] :
       c.variant = "package" => c.PA_TOKEN = None}

\* the globals the configuration assigns
NoGlobals == [CONFLUENCE_API_URL |-> ""]

InitConfig ==
    /\ cfg \in Settings
    /\ IdleFn
    /\ IdleHdr
    /\ pc = "username"
    /\ main_html = None
    /\ log = <<>>
    /\ loc = NoGlobals
    /\ space_id = -1
    /\ reqs = <<>>
    /\ status = "running"
    /\ srv = NoServer

\* a step of the configuration: sys.exit(1) or on to the next statement
Configure(exits, at, globals) ==
    /\ status' = IF exits THEN "exit 1" ELSE status
    /\ pc' = IF exits THEN "done" ELSE at
    /\ loc' = IF exits THEN loc ELSE globals
    /\ UNCHANGED <<cfg, fnVars, hdrVars, main_html, log, space_id, reqs, srv>>

\* a check that lets every configuration through
LacksNothing(value, token) == FALSE

\* "if USERNAME is None and PA_TOKEN is None", "if API_KEY is None and
\* PA_TOKEN is None"; the package has no token
Lacks(value, token) == value.none /\ token.none

CheckUsername ==
    /\ pc = "username"
    /\ Running
    /\ Configure(Lacks(cfg.USERNAME, cfg.PA_TOKEN), "apikey", loc)

CheckApiKey ==
    /\ pc = "apikey"
    /\ Running
    /\ Configure(Lacks(cfg.API_KEY, cfg.PA_TOKEN), "file", loc)

\* if not os.path.exists(MARKDOWN_FILE)
CheckMarkdownFile ==
    /\ pc = "file"
    /\ Running
    /\ Configure(~cfg.exists, "orgname", loc)

\* the address of the API from ORGNAME; the package drops the result of
\* replace under NOSSL
ApiUrl(c) ==
    LET url == IF Contains(c.ORGNAME.text, ".") THEN "https://" \o c.ORGNAME.text
               ELSE "https://" \o c.ORGNAME.text \o ".atlassian.net/wiki"
    IN  IF c.NOSSL /\ c.variant = "md2conf" THEN Replace(url, "https://", "http://")
        ELSE url

SetApiUrl ==
    /\ pc = "orgname"
    /\ Running
    /\ Configure(cfg.ORGNAME.none, "main",
                 [loc EXCEPT !.CONFLUENCE_API_URL = ApiUrl(cfg)])

\* how a session of the run signs its requests
Auth(c) ==
    IF ~c.PA_TOKEN.none THEN [bearer |-> c.PA_TOKEN, user |-> None, key |-> None]
    ELSE [bearer |-> None, user |-> c.USERNAME, key |-> c.API_KEY]

\* main up to its first request: under SIMULATE sys.exit(0), else the lookup
\* of the page (md2conf.py) or of the space (the package)
StartMain ==
    /\ pc = "main"
    /\ Running
    /\ pc' = "done"
    /\ IF cfg.SIMULATE THEN status' = "exit 0" /\ reqs' = reqs
       ELSE /\ status' = "publishing"
            /\ reqs' = Append(reqs,
                 [op |-> IF cfg.variant = "md2conf" THEN "get_page" ELSE "get_space_id",
                  url |-> loc.CONFLUENCE_API_URL, auth |-> Auth(cfg)])
    /\ UNCHANGED <<cfg, fnVars, hdrVars, main_html, log, loc, space_id, srv>>

NextConfig ==
    \/ CheckUsername
    \/ CheckApiKey
    \/ CheckMarkdownFile
    \/ SetApiUrl
    \/ StartMain

SpecConfig == InitConfig /\ [][NextConfig]_vars

\* the run sends nothing, and ends with exit code 1 if it has ended
StopsUnsent == reqs = <<>> /\ pc # "main" /\ (pc = "done" => status = "exit 1")

\* the username, the API key and its token, the file or the organisation is
\* missing
AnyMissing ==
    \/ cfg.USERNAME.none
    \/ (cfg.API_KEY.none /\ cfg.PA_TOKEN.none)
    \/ ~cfg.exists
    \/ cfg.ORGNAME.none

\* the run has no credentials (neither token nor username and API key), no
\* file or no organisation
NothingToSign ==
    \/ (cfg.PA_TOKEN.none /\ (cfg.USERNAME.none \/ cfg.API_KEY.none))
    \/ ~cfg.exists
    \/ cfg.ORGNAME.none

\* C22 as stated: when the username, the API key (or token), the markdown
\* file or the organisation name is missing, the process sends no request
\* and exits with a non-zero code.
MissingSettingStops == AnyMissing => StopsUnsent

\* C22: when the run has neither a personal access token nor both a username
\* and an API key, or the markdown file does not exist, or the organisation
\* name is missing, the process sends no request and exits with code 1; a
\* token stands in for the username and the API key.
MissingCredentialsStop == NothingToSign => StopsUnsent

\* the organisation is found missing after the other checks have passed
MissingCredentialsStopWitness ==
    /\ cfg.ORGNAME.none /\ ~cfg.USERNAME.none /\ ~cfg.API_KEY.none /\ cfg.exists
    /\ pc = "done"
    /\ status = "exit 1"
    /\ reqs = <<>>

\* the process has ended with exit code 0
ExitZero == pc = "done" /\ status \in {"completed", "exit 0"}

\* the last request of the run, answered with a 2xx status, was op
EndedWith(ops) ==
    /\ pc = "done"
    /\ reqs # <<>>
    /\ reqs[Len(reqs)].op \in ops
    /\ reqs[Len(reqs)].answer \in 200..299

\* the conversion of a simulated run went through all its passes
Simulated ==
    /\ pc = "done"
    /\ cfg.SIMULATE
    /\ cfg.variant # "converter"
    /\ log # <<>>
    /\ NextPass(cfg, log[Len(log)]) = "converted"
    /\ status \notin {"AttributeError"}

\* C23: a run that has simulated, that has deleted the existing page, or
\* that has published (its last request, the page update or the last
\* property update, was accepted) ends with exit code 0.
SuccessExitsZero ==
    /\ Simulated => ExitZero
    /\ EndedWith({"delete_page"}) => ExitZero
    /\ EndedWith({"update_page", "update_page_property"}) => ExitZero

Deletes == {k \in DOMAIN reqs : reqs[k].op = "delete_page"}

\* C24: under --delete the run sends no create page and no update page
\* request, whether or not the lookup finds the page; when it finds the page,
\* the run sends one delete request, for the id of that page, as its last
\* request, and ends there.
DeleteNeverCreates ==
    cfg.DELETE =>
       /\ Carriers = {}
       /\ \A k \in Deletes : k = Len(reqs) /\ reqs[k].id = loc.page.id /\ pc = "done"
       /\ (loc.page.found /\ pc \notin {"get_page", "delete_page"}) =>
             Cardinality(Deletes) = 1

\* where main is once it has gone past "if SIMULATE:"
PublishSteps ==
    {"get_page", "get_parent", "delete_page", "create_page", "add_images",
     "add_attachments", "get_page_properties", "add_local_refs", "add_pages_refs",
     "update_page", "update_page_property"}

\* C25: under --simulate the run sends no request of any kind and never
\* goes past the conversion: it ends after the macro passes with exit code
\* 0, or at the pass that raised.
SimulateSendsNothing ==
    (cfg.SIMULATE /\ cfg.variant # "converter") =>
       /\ reqs = <<>>
       /\ space_id = -1
       /\ pc \notin PublishSteps
       /\ pc = "done" =>
            \/ status = "exit 0" /\ NextPass(cfg, log[Len(log)]) = "converted"
            \/ status = "AttributeError"

\* a simulated run of each script has ended after its last pass
SimulateSendsNothingWitness ==
    /\ cfg.SIMULATE
    /\ cfg.variant = "md2conf"
    /\ pc = "done"
    /\ status = "exit 0"
    /\ log[Len(log)] = "refs"
    /\ ~main_html.none

-----------------------------------------------------------------------------
(* The alternate keys of add_local_refs (C26), checked on SpecHeaders      *)

\* the keys the headings of the page derive from their slugs
DerivedKeys == {HeaderKey(headers[j], cfg.MARKDOWN_SOURCE) : j \in DOMAIN headers}

\* the keys the loop has made for duplicates: those without a counter
AltKeys == DOMAIN hstate.map \ DOMAIN hstate.count

\* C26: whatever the heading texts, an alternate key made for a duplicate
\* heading is the key of no heading of the page, and no iteration writes
\* over an entry: after n headings the map holds n entries.
AltKeysAreFresh ==
    /\ AltKeys \cap DerivedKeys = {}
    /\ Cardinality(DOMAIN hstate.map) = hidx

\* "Intro" twice and "Intro_1" have been mapped under three keys
AltKeysAreFreshWitness ==
    /\ stage = "done"
    /\ hidx = 3
    /\ \E i, j, k \in DOMAIN headers :
          /\ i # j /\ headers[i] = "Intro" /\ headers[j] = "Intro"
          /\ headers[k] = "Intro_1"
    /\ AltKeys # {}
    /\ Cardinality(DOMAIN hstate.map) = 3

-----------------------------------------------------------------------------
(* The passes that follow the code-block conversion, on a page with one    *)
(* code block (C27)                                                        *)

\* the bodies of the code block as the renderer writes them: plain, with an
\* emoji, with a footnote mark, with an image tag, with an in-page link
BlockBodies ==
    {"x = 1",
     "smile = '@'",
     "a[^1]",
     "&lt;img alt=&quot;a&quot; src=&quot;a.png&quot; /&gt;",
     "&lt;a href=&quot;#set-up&quot;&gt;up&lt;/a&gt;"}

FootnotePara == "\n<p>cite[^1]</p>\n<p>[^1]: <a href=\"http://x\">http://x</a></p>"

\* the page of the argument: a heading, the code block and, if cited, a
\* footnote with its definition
BlockPage(a) ==
    "<h1>Set up</h1>\n<p>t</p>\n"
    \o CodeBlockHtml([lang |-> "py", body |-> a.body])
    \o (IF a.cited THEN FootnotePara ELSE "")

\* the passes from the code blocks on: the conversion, then add_images and
\* add_local_refs on the page about to be sent
LaterPasses == <<"code", "emoji", "contents", "refs", "add_images", "add_local_refs">>

PassAfter(c, k) == StepAfter(c, LaterPasses, k)

InitBodies ==
    /\ cfg \in {[ScriptCfg(v) EXCEPT !.TITLE = "Guide", !.REMOVE_EMOJIES = e,
                                     !.CONTENTS = n] :
                  v \in {"package", "md2conf"}, e \in BOOLEAN, n \in BOOLEAN}
    /\ arg \in [body : BlockBodies, cited : BOOLEAN]
    /\ ret = NoRet
    /\ stage = "idle"
    /\ IdleHdr
    /\ pc = "code"
    /\ main_html = Str(BlockPage(arg))
    /\ log = <<>>
    /\ loc = [NoLocals EXCEPT !.title = "Guide", !.page_id = Server.page.id]
    /\ space_id = -1
    /\ reqs = <<>>
    /\ status = "running"
    /\ srv = NoServer

\* html = pass(html)
BodyPass(name, out) ==
    /\ pc = name
    /\ main_html' = Str(out)
    /\ log' = Append(log, name)
    /\ pc' = PassAfter(cfg, Position(LaterPasses, name))
    /\ UNCHANGED <<cfg, fnVars, hdrVars, loc, space_id, reqs, status, srv>>

BodyCode ==
    BodyPass("code", IF cfg.variant = "md2conf"
                     THEN md2conf_convert_code_block(main_html.text)
                     ELSE convert_code_block(main_html.text))

BodyEmoji == BodyPass("emoji", remove_emojies(main_html.text))

BodyContents == BodyPass("contents", add_contents(main_html.text))

BodyRefs == BodyPass("refs", process_refs(main_html.text))

BodyImages == BodyPass("add_images", add_images(loc.page_id, main_html.text))

BodyLocalRefs ==
    BodyPass("add_local_refs",
             add_local_refs(loc.page_id, SPACE_KEY, loc.title, main_html.text,
                            cfg.MARKDOWN_SOURCE, cfg.VERSION))

NextBodies ==
    \/ BodyCode
    \/ BodyEmoji
    \/ BodyContents
    \/ BodyRefs
    \/ BodyImages
    \/ BodyLocalRefs

SpecBodies == InitBodies /\ [][NextBodies]_vars

\* the text between the CDATA opening of the code macro and its end
CodeBodyOf(html) ==
    LET open == Find(html, MacroPlainOpen, 1)
        close == IF open = 0 THEN 0 ELSE Find(html, MacroPlainClose, open)
    IN  IF close = 0 THEN ""
        ELSE SubSeq(html, open + Len(MacroPlainOpen), close - 1)

\* C27: once the code block is converted, the body of the code macro is the
\* entity-decoded body of the source block, and every later pass (emoji
\* stripping, contents, footnotes, image rehoming, local anchors) leaves it
\* so.
CodeBodyKept ==
    log # <<>> => CodeBodyOf(main_html.text) = UnescapeMacro(arg.body)

-----------------------------------------------------------------------------
(* The order of uploads and page update (C28), checked on the drivers      *)

Uploads == {k \in DOMAIN reqs : reqs[k].op \in {"get_attachment", "upload_attachment"}}
Updates == {k \in DOMAIN reqs : reqs[k].op = "update_page"}

\* C28: a run sends at most one page update request, and every request of
\* an upload (of an attachment or of an image of the page) goes out before
\* it.
UploadsBeforeUpdate ==
    /\ Cardinality(Updates) <= 1
    /\ \A k \in Uploads : \A j \in Updates : k < j

\* a run has uploaded the image of the page and the attachment, then sent
\* the update with the rehomed image
UploadsBeforeUpdateWitness ==
    /\ status = "completed"
    /\ \E i, k \in Uploads :
          /\ reqs[i].op = "upload_attachment" /\ reqs[i].name = "logo.png"
          /\ reqs[k].op = "upload_attachment" /\ reqs[k].name = "notes.txt"
    /\ \E j \in Updates :
          Contains(reqs[j].body.text, DownloadRoot \o IntToStr(reqs[j].id) \o "/logo.png")

-----------------------------------------------------------------------------
(* Page requests and the space id (C29), checked on SpecClient             *)

\* the requests of the client that carry the space id: in the address
\* (get_page) or in the page sent (create_page, update_page)
SpaceIdCarriers == {"get_page", "create_page", "update_page"}

\* C29: a call of the client sends no get page, create page or update page
\* request while the space id is unresolved (-1): after a lookup answered
\* 404 or with an empty result list no page request follows.
NoPageRequestUnresolved ==
    cfg.variant = "package" =>
       \A k \in DOMAIN reqs : reqs[k].op \in SpaceIdCarriers => space_id > -1

-----------------------------------------------------------------------------
(* The property updates main of the package builds (C30)                   *)

MaxProps == 2

\* the content properties Confluence can hold for a page, and what
\* --property can ask for
HeldProps ==
    {[key |-> "owner", value |-> "old", version |-> 2, id |-> 22],
     [key |-> "team", value |-> "docs", version |-> 4, id |-> 23],
     [key |-> "editor", value |-> "v1", version |-> 1, id |-> 21],
     [key |-> "editor", value |-> "v2", version |-> 3, id |-> 21]}
AskedProps == [key : {"owner", "editor"}, value : {"me"}]

\* no two of the sequence have one key: Confluence keeps one property per
\* key, PROPERTIES is a dict
OneEach(ps) == \A i, j \in DOMAIN ps : ps[i].key = ps[j].key => i = j

InitProps ==
    /\ cfg \in {[ScriptCfg("package") EXCEPT !.VERSION = v, !.PROPERTIES = p] :
                  v \in Versions,
                  p \in {q \in SeqsOf(AskedProps, 0, MaxProps) : OneEach(q)}}
    /\ arg \in {e \in SeqsOf(HeldProps, 0, MaxProps) : OneEach(e)}
    /\ ret = NoRet
    /\ stage = "call"
    /\ IdleHdr
    /\ IdleDrv

\* the two loops of main over properties = client.get_page_properties(page_id)
BuildPropertyUpdates ==
    /\ stage = "call"
    /\ ret' = Returned(properties_for_update(arg, cfg.PROPERTIES, cfg.VERSION))
    /\ stage' = "done"
    /\ UNCHANGED <<cfg, arg, hdrVars, drvVars>>

NextProps == BuildPropertyUpdates

SpecProps == InitProps /\ [][NextProps]_vars

Held(key) == {k \in DOMAIN arg : arg[k].key = key}
Asked(key) == \E k \in DOMAIN cfg.PROPERTIES : cfg.PROPERTIES[k].key = key
StaleEditor(p) == p.key = "editor" /\ p.value # "v" \o IntToStr(cfg.VERSION)

\* C30: the list of property updates holds at most one entry per key; the
\* entry of a key the page holds carries the held version plus one and the
\* held id, the entry of a key it does not hold carries version 1 and no id;
\* a held property that is neither asked for nor an out-of-date editor
\* property has no entry.
PropertyUpdatesWellFormed ==
    stage = "done" =>
       LET updates == ret.value
       IN  /\ OneEach(updates)
           /\ \A i \in DOMAIN updates :
                 IF Held(updates[i].key) = {}
                 THEN updates[i].version = 1 /\ updates[i].id = 0
                 ELSE \E k \in Held(updates[i].key) :
                         /\ updates[i].version = arg[k].version + 1
                         /\ updates[i].id = arg[k].id
           /\ \A k \in DOMAIN arg :
                 (~Asked(arg[k].key) /\ ~StaleEditor(arg[k])) =>
                    \A i \in DOMAIN updates : updates[i].key # arg[k].key

====
